---- MODULE Spec2Model ----
(***************************************************************************)
(* A model of elf-cli (FolderElf CLI): the directory scanner, the          *)
(* duplicate handler, the file organizer and the zip-archive screening.    *)
(*                                                                         *)
(* File and folder names are sequences of one-character strings, so that   *)
(* the string functions of the program (ToLower, Contains, HasPrefix,      *)
(* HasSuffix, filepath.Ext) are computed on the characters as the program  *)
(* computes them.                                                          *)
(***************************************************************************)
EXTENDS Integers, Sequences, FiniteSets, TLC

\* ------------------------------------------------------------------------
\* Strings
\* ------------------------------------------------------------------------

\* The characters in byte order (the order in which filepath.Walk visits the
\* names of one directory).
Alphabet ==
  <<" ", "(", ")", "-", ".", "0", "1", "2", "3", "4", "5", "6", "7", "8", "9", "A", "B", "C", "D", "E", "F", "G", "H", "I", "J", "K", "L", "M", "N", "O", "P", "Q", "R", "S", "T", "U", "V", "W", "X", "Y", "Z", "_", "a", "b", "c", "d", "e", "f", "g", "h", "i", "j", "k", "l", "m", "n", "o", "p", "q", "r", "s", "t", "u", "v", "w", "x", "y", "z">>

Ord(c) == CHOOSE i \in 1..Len(Alphabet) : Alphabet[i] = c

\* strings.ToLower on one character, and on a string.
LowerChar(c) ==
  CASE c = "A" -> "a"
    [] c = "B" -> "b"
    [] c = "C" -> "c"
    [] c = "D" -> "d"
    [] c = "E" -> "e"
    [] c = "F" -> "f"
    [] c = "G" -> "g"
    [] c = "H" -> "h"
    [] c = "I" -> "i"
    [] c = "J" -> "j"
    [] c = "K" -> "k"
    [] c = "L" -> "l"
    [] c = "M" -> "m"
    [] c = "N" -> "n"
    [] c = "O" -> "o"
    [] c = "P" -> "p"
    [] c = "Q" -> "q"
    [] c = "R" -> "r"
    [] c = "S" -> "s"
    [] c = "T" -> "t"
    [] c = "U" -> "u"
    [] c = "V" -> "v"
    [] c = "W" -> "w"
    [] c = "X" -> "x"
    [] c = "Y" -> "y"
    [] c = "Z" -> "z"
    [] OTHER -> c

ToLower(s) == [i \in 1..Len(s) |-> LowerChar(s[i])]

\* strings.Contains
Contains(s, sub) ==
  \E i \in 1..(Len(s) - Len(sub) + 1) : SubSeq(s, i, i + Len(sub) - 1) = sub

\* strings.HasPrefix / strings.HasSuffix
HasPrefix(s, p) == Len(s) >= Len(p) /\ SubSeq(s, 1, Len(p)) = p

HasSuffix(s, p) == Len(s) >= Len(p) /\ SubSeq(s, Len(s) - Len(p) + 1, Len(s)) = p

\* The decimal digits, and the character of one.
Digits == << "0", "1", "2", "3", "4", "5", "6", "7", "8", "9" >>

Digit(n) == Digits[n + 1]

\* filepath.Ext: the suffix beginning at the final dot of the last path
\* element, or the empty string when that element has no dot.
Ext(name) ==
  IF \E i \in 1..Len(name) :
       name[i] = "." /\ \A j \in (i+1)..Len(name) : name[j] # "/"
    THEN LET k == CHOOSE i \in 1..Len(name) :
                    /\ name[i] = "."
                    /\ \A j \in (i+1)..Len(name) : name[j] # "." /\ name[j] # "/"
         IN SubSeq(name, k, Len(name))
    ELSE << >>

\* s < t in byte order.
LexLess(s, t) ==
  \E k \in 1..(Len(t)) :
     /\ k <= Len(s) + 1
     /\ SubSeq(s, 1, k - 1) = SubSeq(t, 1, k - 1)
     /\ \/ k = Len(s) + 1
        \/ (k <= Len(s) /\ Ord(s[k]) < Ord(t[k]))

\* ------------------------------------------------------------------------
\* Classifier (Scanner.determineCategory)
\* ------------------------------------------------------------------------
ImageExts ==
  { <<".", "j", "p", "g">>,
    <<".", "j", "p", "e", "g">>,
    <<".", "p", "n", "g">>,
    <<".", "g", "i", "f">>,
    <<".", "b", "m", "p">>,
    <<".", "t", "i", "f", "f">>,
    <<".", "s", "v", "g">>,
    <<".", "w", "e", "b", "p">> }
DocumentExts ==
  { <<".", "p", "d", "f">>,
    <<".", "d", "o", "c">>,
    <<".", "d", "o", "c", "x">>,
    <<".", "t", "x", "t">>,
    <<".", "r", "t", "f">>,
    <<".", "o", "d", "t">>,
    <<".", "x", "l", "s">>,
    <<".", "x", "l", "s", "x">>,
    <<".", "p", "p", "t">>,
    <<".", "p", "p", "t", "x">> }
VideoExts ==
  { <<".", "m", "p", "4">>,
    <<".", "a", "v", "i">>,
    <<".", "m", "k", "v">>,
    <<".", "m", "o", "v">>,
    <<".", "w", "m", "v">>,
    <<".", "f", "l", "v">>,
    <<".", "w", "e", "b", "m">> }
MusicExts ==
  { <<".", "m", "p", "3">>,
    <<".", "w", "a", "v">>,
    <<".", "f", "l", "a", "c">>,
    <<".", "a", "a", "c">>,
    <<".", "o", "g", "g">>,
    <<".", "w", "m", "a">> }
ApplicationExts ==
  { <<".", "p", "k", "g">>,
    <<".", "e", "x", "e">>,
    <<".", "m", "s", "i">>,
    <<".", "d", "e", "b">>,
    <<".", "r", "p", "m">>,
    <<".", "a", "p", "p">> }
ArchiveExts ==
  { <<".", "z", "i", "p">>,
    <<".", "r", "a", "r">>,
    <<".", "7", "z">>,
    <<".", "t", "a", "r">>,
    <<".", "g", "z">>,
    <<".", "b", "z", "2">> }
DiskImageExts ==
  { <<".", "i", "s", "o">>,
    <<".", "d", "m", "g">> }

NoExtension == <<"n", "o", "_", "e", "x", "t", "e", "n", "s", "i", "o", "n">>

\* (First a variant that looks at the name before the extension.)
determineCategory_NameFirst(ext, name) ==
  LET lowerName == ToLower(name) IN
  IF Contains(lowerName, <<"i", "n", "s", "t", "a", "l", "l">>) \/ Contains(lowerName, <<"s", "e", "t", "u", "p">>)
    THEN "Applications"
  ELSE IF Contains(lowerName, <<"m", "a", "n", "u", "a", "l">>) \/ Contains(lowerName, <<"g", "u", "i", "d", "e">>)
    THEN "Documents"
  ELSE CASE ext \in ImageExts -> "Images"
         [] ext \in DocumentExts -> "Documents"
         [] ext \in VideoExts -> "Videos"
         [] ext \in MusicExts -> "Music"
         [] ext \in ApplicationExts -> "Applications"
         [] ext \in ArchiveExts -> "Archives"
         [] ext \in DiskImageExts -> "Disk Images"
         [] OTHER -> "Other"

determineCategory(ext, name) ==
  CASE ext \in ImageExts -> "Images"
    [] ext \in DocumentExts -> "Documents"
    [] ext \in VideoExts -> "Videos"
    [] ext \in MusicExts -> "Music"
    [] ext \in ApplicationExts -> "Applications"
    [] ext \in ArchiveExts -> "Archives"
    [] ext \in DiskImageExts -> "Disk Images"
    [] OTHER ->
         LET lowerName == ToLower(name) IN
         IF Contains(lowerName, <<"i", "n", "s", "t", "a", "l", "l">>) \/ Contains(lowerName, <<"s", "e", "t", "u", "p">>)
           THEN "Applications"
         ELSE IF Contains(lowerName, <<"m", "a", "n", "u", "a", "l">>) \/ Contains(lowerName, <<"g", "u", "i", "d", "e">>)
           THEN "Documents"
         ELSE "Other"

\* ------------------------------------------------------------------------
\* Copy indicators (DuplicateHandler.isOriginalFile)
\* ------------------------------------------------------------------------
copyPatterns ==
  << <<" ", "(", "1", ")">>,
     <<" ", "(", "2", ")">>,
     <<" ", "(", "3", ")">>,
     <<" ", "(", "4", ")">>,
     <<" ", "(", "5", ")">>,
     <<" ", "(", "6", ")">>,
     <<" ", "(", "7", ")">>,
     <<" ", "(", "8", ")">>,
     <<" ", "(", "9", ")">>,
     <<" ", "(", "1", "0", ")">>,
     <<" ", "c", "o", "p", "y">>,
     <<" ", "c", "o", "p", "y", " ", "(", "1", ")">>,
     <<" ", "c", "o", "p", "y", " ", "(", "2", ")">>,
     <<" ", "c", "o", "p", "y", " ", "(", "3", ")">>,
     <<" ", "c", "o", "p", "y", " ", "(", "4", ")">>,
     <<" ", "c", "o", "p", "y", " ", "(", "5", ")">>,
     <<" ", "-", " ", "c", "o", "p", "y">>,
     <<" ", "-", " ", "c", "o", "p", "y", " ", "(", "1", ")">>,
     <<" ", "-", " ", "c", "o", "p", "y", " ", "(", "2", ")">>,
     <<" ", "-", " ", "c", "o", "p", "y", " ", "(", "3", ")">>,
     <<" ", "-", " ", "c", "o", "p", "y", " ", "(", "4", ")">>,
     <<" ", "-", " ", "c", "o", "p", "y", " ", "(", "5", ")">>,
     <<"_", "c", "o", "p", "y">>,
     <<"_", "c", "o", "p", "y", "(", "1", ")">>,
     <<"_", "c", "o", "p", "y", "(", "2", ")">>,
     <<"_", "c", "o", "p", "y", "(", "3", ")">>,
     <<"_", "c", "o", "p", "y", "(", "4", ")">>,
     <<"_", "c", "o", "p", "y", "(", "5", ")">>,
     <<"-", "c", "o", "p", "y">>,
     <<"-", "c", "o", "p", "y", "(", "1", ")">>,
     <<"-", "c", "o", "p", "y", "(", "2", ")">>,
     <<"-", "c", "o", "p", "y", "(", "3", ")">>,
     <<"-", "c", "o", "p", "y", "(", "4", ")">>,
     <<"-", "c", "o", "p", "y", "(", "5", ")">>,
     <<".", "c", "o", "p", "y">>,
     <<".", "c", "o", "p", "y", "(", "1", ")">>,
     <<".", "c", "o", "p", "y", "(", "2", ")">>,
     <<".", "c", "o", "p", "y", "(", "3", ")">>,
     <<".", "c", "o", "p", "y", "(", "4", ")">>,
     <<".", "c", "o", "p", "y", "(", "5", ")">>,
     <<" ", "(", "c", "o", "p", "y", ")">>,
     <<" ", "(", "c", "o", "p", "y", " ", "1", ")">>,
     <<" ", "(", "c", "o", "p", "y", " ", "2", ")">>,
     <<" ", "(", "c", "o", "p", "y", " ", "3", ")">>,
     <<" ", "(", "c", "o", "p", "y", " ", "4", ")">>,
     <<" ", "(", "c", "o", "p", "y", " ", "5", ")">>,
     <<"-", " ", "(", "c", "o", "p", "y", ")">>,
     <<"-", " ", "(", "c", "o", "p", "y", " ", "1", ")">>,
     <<"-", " ", "(", "c", "o", "p", "y", " ", "2", ")">>,
     <<"-", " ", "(", "c", "o", "p", "y", " ", "3", ")">>,
     <<"-", " ", "(", "c", "o", "p", "y", " ", "4", ")">>,
     <<"-", " ", "(", "c", "o", "p", "y", " ", "5", ")">>,
     <<"_", " ", "(", "c", "o", "p", "y", ")">>,
     <<"_", " ", "(", "c", "o", "p", "y", " ", "1", ")">>,
     <<"_", " ", "(", "c", "o", "p", "y", " ", "2", ")">>,
     <<"_", " ", "(", "c", "o", "p", "y", " ", "3", ")">>,
     <<"_", " ", "(", "c", "o", "p", "y", " ", "4", ")">>,
     <<"_", " ", "(", "c", "o", "p", "y", " ", "5", ")">>,
     <<" ", "d", "u", "p", "l", "i", "c", "a", "t", "e">>,
     <<" ", "d", "u", "p", "l", "i", "c", "a", "t", "e", " ", "(", "1", ")">>,
     <<" ", "d", "u", "p", "l", "i", "c", "a", "t", "e", " ", "(", "2", ")">>,
     <<" ", "d", "u", "p", "l", "i", "c", "a", "t", "e", " ", "(", "3", ")">>,
     <<" ", "d", "u", "p", "l", "i", "c", "a", "t", "e", " ", "(", "4", ")">>,
     <<" ", "d", "u", "p", "l", "i", "c", "a", "t", "e", " ", "(", "5", ")">>,
     <<" ", "-", " ", "d", "u", "p", "l", "i", "c", "a", "t", "e">>,
     <<" ", "-", " ", "d", "u", "p", "l", "i", "c", "a", "t", "e", " ", "(", "1", ")">>,
     <<" ", "-", " ", "d", "u", "p", "l", "i", "c", "a", "t", "e", " ", "(", "2", ")">>,
     <<" ", "-", " ", "d", "u", "p", "l", "i", "c", "a", "t", "e", " ", "(", "3", ")">>,
     <<" ", "-", " ", "d", "u", "p", "l", "i", "c", "a", "t", "e", " ", "(", "4", ")">>,
     <<" ", "-", " ", "d", "u", "p", "l", "i", "c", "a", "t", "e", " ", "(", "5", ")">>,
     <<"_", "d", "u", "p", "l", "i", "c", "a", "t", "e">>,
     <<"_", "d", "u", "p", "l", "i", "c", "a", "t", "e", "(", "1", ")">>,
     <<"_", "d", "u", "p", "l", "i", "c", "a", "t", "e", "(", "2", ")">>,
     <<"_", "d", "u", "p", "l", "i", "c", "a", "t", "e", "(", "3", ")">>,
     <<"_", "d", "u", "p", "l", "i", "c", "a", "t", "e", "(", "4", ")">>,
     <<"_", "d", "u", "p", "l", "i", "c", "a", "t", "e", "(", "5", ")">>,
     <<"-", "d", "u", "p", "l", "i", "c", "a", "t", "e">>,
     <<"-", "d", "u", "p", "l", "i", "c", "a", "t", "e", "(", "1", ")">>,
     <<"-", "d", "u", "p", "l", "i", "c", "a", "t", "e", "(", "2", ")">>,
     <<"-", "d", "u", "p", "l", "i", "c", "a", "t", "e", "(", "3", ")">>,
     <<"-", "d", "u", "p", "l", "i", "c", "a", "t", "e", "(", "4", ")">>,
     <<"-", "d", "u", "p", "l", "i", "c", "a", "t", "e", "(", "5", ")">> >>

isOriginalFile(filename) ==
  LET lowerName == ToLower(filename) IN
  ~ \E i \in 1..Len(copyPatterns) : Contains(lowerName, copyPatterns[i])

\* ------------------------------------------------------------------------
\* 64-bit integers
\*
\* A 64-bit value is four 16-bit limbs, least significant first.  uint64
\* and int64 share the representation: int64(u) keeps the bits, and a value
\* whose top bit is set is negative as an int64.
\* ------------------------------------------------------------------------

LimbBase == 256 * 256

\* The 64-bit value of a natural number below 2^31.
U64(n) == << n % LimbBase, (n \div LimbBase) % LimbBase, 0, 0 >>

\* 2^k as a 64-bit value, for 0 <= k <= 63.
Shift16(k) == 2 ^ (k % 16)

Pow2(k) == [i \in 1..4 |-> IF i = (k \div 16) + 1 THEN Shift16(k) ELSE 0]

\* a + b modulo 2^64 (Go's += on int64 wraps around).
Add64(a, b) ==
  LET s1 == a[1] + b[1]
      s2 == a[2] + b[2] + (s1 \div LimbBase)
      s3 == a[3] + b[3] + (s2 \div LimbBase)
      s4 == a[4] + b[4] + (s3 \div LimbBase)
  IN << s1 % LimbBase, s2 % LimbBase, s3 % LimbBase, s4 % LimbBase >>

\* a < b as unsigned numbers of the same number of limbs.
ULess(a, b) ==
  \E k \in 1..Len(a) :
     /\ a[k] < b[k]
     /\ \A j \in (k+1)..Len(a) : a[j] = b[j]

\* a as an int64 is negative.
IsNegative64(a) == a[4] >= LimbBase \div 2

\* a > b as int64, for a non-negative b.
SignedGreater(a, b) == ~IsNegative64(a) /\ ULess(b, a)

\* a * k as a five-limb unsigned number (no wrap), for a small k.
MulSmall(a, k) ==
  LET p1 == a[1] * k
      p2 == a[2] * k + (p1 \div LimbBase)
      p3 == a[3] * k + (p2 \div LimbBase)
      p4 == a[4] * k + (p3 \div LimbBase)
  IN << p1 % LimbBase, p2 % LimbBase, p3 % LimbBase, p4 % LimbBase, p4 \div LimbBase >>

Zero64 == U64(0)

\* Unsigned numbers of any number of limbs: a widened to n limbs, a + b and
\* a * k (k below 2^15) for numbers of the same length that the result
\* fits, and a moved up by n limbs.
Pad(a, n) == [i \in 1..n |-> IF i <= Len(a) THEN a[i] ELSE 0]

RECURSIVE PlusFrom(_, _, _, _)
PlusFrom(a, b, i, carry) ==
  IF i > Len(a) THEN << >>
  ELSE LET s == a[i] + b[i] + carry IN
       << s % LimbBase >> \o PlusFrom(a, b, i + 1, s \div LimbBase)

PlusN(a, b) == PlusFrom(a, b, 1, 0)

RECURSIVE TimesFrom(_, _, _, _)
TimesFrom(a, k, i, carry) ==
  IF i > Len(a) THEN << >>
  ELSE LET p == a[i] * k + carry IN
       << p % LimbBase >> \o TimesFrom(a, k, i + 1, p \div LimbBase)

TimesN(a, k) == TimesFrom(a, k, 1, 0)

ShiftLimbs(a, n) == [i \in 1..Len(a) |-> IF i <= n THEN 0 ELSE a[i - n]]

\* The number of bits of a limb: 0 for 0, 16 for 2^15 and above.
BitLen16(v) == CHOOSE k \in 0..16 : v < 2 ^ k /\ (k = 0 \/ v >= 2 ^ (k - 1))

\* float64(a) for a uint64 a, as the integer it denotes (five limbs): exact
\* below 2^53, else rounded to 53 significant bits, ties to even.
Float64(a) ==
  IF a[4] < 32 THEN Pad(a, 5)
  ELSE LET unit == 2 ^ (BitLen16(a[4]) - 5)
           low  == a[1] % unit
           odd  == (a[1] \div unit) % 2 = 1
           down == << a[1] - low, a[2], a[3], a[4], 0 >>
       IN IF 2 * low > unit \/ (2 * low = unit /\ odd)
            THEN PlusN(down, << unit, 0, 0, 0, 0 >>)
            ELSE down

\* The float64 constant 0.01 is 5764607523034235 * 2^-59.  A quotient
\* rounds to a float64 below it exactly when it is at most the midpoint
\* between 0.01 and the float64 before it, 11529215046068469 * 2^-60 (the
\* tie goes to the even neighbour, the one before).  The bytes of
\* 11529215046068469, most significant first:
MidpointBelowOnePercent == << 40, 245, 194, 143, 92, 40, 245 >>

RECURSIVE TimesBytes(_, _, _, _)
TimesBytes(a, bytes, i, acc) ==
  IF i > Len(bytes) THEN acc
  ELSE TimesBytes(a, bytes, i + 1, PlusN(TimesN(acc, 256), TimesN(a, bytes[i])))

\* ------------------------------------------------------------------------
\* Zip archives and FileOrganizer.checkZipBomb
\*
\* An archive is what zip.OpenReader reads from the central directory: the
\* entries' names and declared sizes.  The entries are `head` followed by
\* copies of `fill`, `n` entries in all.
\* ------------------------------------------------------------------------

maxZipSize == 100 * 1024 * 1024

maxZipEntries == 10000

EntryAt(z, i) == IF i <= Len(z.head) THEN z.head[i] ELSE z.fill

\* float64(CompressedSize64) / float64(UncompressedSize64) < 0.01, with the
\* conversions and the division rounded as IEEE 754 rounds them:
\* float64(c) * 2^60 <= 11529215046068469 * float64(u).
RatioRoundsBelowOnePercent(c, u) ==
  LET fc  == Pad(Float64(c), 8)
      fu  == Pad(Float64(u), 8)
      lhs == ShiftLimbs(TimesN(fc, 4096), 3)
      rhs == TimesBytes(fu, MidpointBelowOnePercent, 1, Pad(<< >>, 8))
  IN ~ULess(rhs, lhs)

\* Below 2^53 both conversions are exact and the rounded quotient is under
\* 0.01 exactly when 100 * c < u: if 100 * c <= u - 1 the quotient is at
\* most 0.01 - 1/(100 * u), which is under the midpoint (0.01 - 0.76 * 2^-60)
\* for u <= 2^60 / 76; if 100 * c >= u the quotient is at least 0.01.
RatioBelowOnePercent(c, u) ==
  IF c[4] < 32 /\ u[4] < 32
    THEN ULess(MulSmall(c, 100), Pad(u, 5))
    ELSE RatioRoundsBelowOnePercent(c, u)

\* One pass of the loop over r.File (organizer.go lines 73-91).
zipBombLoopBody(st, f) ==
  LET count == st.entryCount + 1
      total == Add64(st.totalSize, f.usize)
  IN IF count > maxZipEntries
       THEN [st EXCEPT !.entryCount = count, !.err = "too many entries"]
     ELSE IF /\ f.usize # Zero64
             /\ RatioBelowOnePercent(f.csize, f.usize)
             /\ ULess(U64(1024 * 1024), f.usize)
       THEN [st EXCEPT !.entryCount = count, !.err = "suspicious compression ratio"]
     ELSE IF SignedGreater(total, U64(maxZipSize * 10))
       THEN [st EXCEPT !.entryCount = count, !.totalSize = total,
                       !.err = "would expand to too large size"]
     ELSE [st EXCEPT !.entryCount = count, !.totalSize = total]

\* The checks before the loop (organizer.go lines 52-67): os.Stat, the file
\* size, zip.OpenReader.  `exists` is whether os.Stat finds the file.
zipBombOpen(exists, fileSize, openable) ==
  IF ~exists THEN "cannot stat zip file"
  ELSE IF fileSize > maxZipSize THEN "zip file too large"
  ELSE IF ~openable THEN "cannot open zip file"
  ELSE ""

ZipLoopStart == [entryCount |-> 0, totalSize |-> Zero64, err |-> ""]

RECURSIVE zipBombLoop(_, _, _)
zipBombLoop(z, i, st) ==
  IF st.err # "" \/ i > z.n THEN st
  ELSE zipBombLoop(z, i + 1, zipBombLoopBody(st, EntryAt(z, i)))

\* checkZipBomb as a whole: "" when it returns nil, else the error.
checkZipBomb(exists, fileSize, z) ==
  LET pre == zipBombOpen(exists, fileSize, z.openable) IN
  IF pre # "" THEN pre ELSE zipBombLoop(z, 1, ZipLoopStart).err

\* ------------------------------------------------------------------------
\* State
\* ------------------------------------------------------------------------

VARIABLES
  pc,          \* where the clean action of main is
  flags,       \* the command-line flags of this run
  env,         \* the machine: read-only folders, folders on another volume,
               \* and the loop-variable semantics the program was built with
  disk,        \* the regular files on disk
  dirs,        \* the folders on disk
  Files,       \* Scanner.Files
  Categories,  \* Scanner.Categories
  Duplicates,  \* Scanner.Duplicates
  todo,        \* what the running loop has still to visit
  stats,       \* the running totals of the operation in progress
  out,         \* what the run reported so far
  start,       \* the files and folders on disk when the run started
  zip,         \* checkZipBomb in isolation: the archive, the position in
  zst,         \* r.File, and the loop's locals
  stdin        \* standard input: what was typed and is not read yet, and
               \* whether the input has ended

vars == << pc, flags, env, disk, dirs, Files, Categories, Duplicates, todo,
           stats, out, start, zip, zst, stdin >>

scanVars == << Files, Categories, Duplicates >>

zipVars == << zip, zst >>

\* ------------------------------------------------------------------------
\* The file system
\*
\* A folder is the sequence of its path components below the scanned root:
\* << >> is the root (FileOrganizer.BasePath), << n >> the folder n in it,
\* and << "..", n >> a folder outside the scanned tree.  A file is a record
\* of its folder, its name, its bytes (`content`, a key of Blobs), its
\* modification time, and whether it can be opened and read (`io`: "ok",
\* "noopen" when os.Open fails, "noread" when it opens and reading fails).
\* ------------------------------------------------------------------------

Base == << >>

Outside == <<".", ".">>

Parent(d) == SubSeq(d, 1, Len(d) - 1)

PathOf(f) == [dir |-> f.dir, name |-> f.name]

Join(d, name) == [dir |-> d, name |-> name]

Exists(dk, p) == \E f \in dk : PathOf(f) = p

FileAt(dk, p) == CHOOSE f \in dk : PathOf(f) = p

\* The bytes of a destination file whose copy stopped midway.
Partial == 0

\* The time stamped on a file the program creates (later than every file
\* that was on disk when the run started).
MaxTime == 2

Now == MaxTime + 1

SameVolume(ev, d1, d2) == (d1 \in ev.far) = (d2 \in ev.far)

\* os.Remove of a file: [err, disk].
osRemove(dk, ev, p) ==
  IF Exists(dk, p) /\ p.dir \notin ev.ro
    THEN [err |-> FALSE, disk |-> dk \ {FileAt(dk, p)}]
    ELSE [err |-> TRUE, disk |-> dk]

\* os.Rename: replaces an existing destination; fails across volumes.
osRename(dk, ds, ev, src, dst) ==
  IF ~Exists(dk, src) \/ dst.dir \notin ds
    THEN [err |-> TRUE, disk |-> dk]
  ELSE IF src = dst
    THEN [err |-> FALSE, disk |-> dk]
  ELSE IF src.dir \in ev.ro \/ dst.dir \in ev.ro \/ ~SameVolume(ev, src.dir, dst.dir)
    THEN [err |-> TRUE, disk |-> dk]
  ELSE LET f == FileAt(dk, src) IN
       [err |-> FALSE,
        disk |-> {g \in dk : PathOf(g) # src /\ PathOf(g) # dst}
                   \cup {[f EXCEPT !.dir = dst.dir, !.name = dst.name]}]

\* copyAndDelete (the same code in FileOrganizer and DuplicateHandler):
\* os.Open(src), os.Create(dst), copy, Sync, os.Remove(src).  os.Create
\* truncates an existing destination; a copy that fails midway leaves the
\* destination partial and the source untouched.
\* (First a variant that removes the source whether or not the copy went
\* through.)
copyAndDelete_RemovesAnyway(dk, ds, ev, src, dst) ==
  IF ~Exists(dk, src) \/ FileAt(dk, src).io = "noopen"
    THEN [err |-> TRUE, disk |-> dk]
  ELSE IF dst.dir \notin ds \/ (~Exists(dk, dst) /\ dst.dir \in ev.ro)
    THEN [err |-> TRUE, disk |-> dk]
  ELSE LET f == FileAt(dk, src)
           others == {g \in dk : PathOf(g) # dst /\ PathOf(g) # src}
           partial == [dir |-> dst.dir, name |-> dst.name, content |-> Partial,
                       mtime |-> Now, io |-> "ok"]
           whole == [f EXCEPT !.dir = dst.dir, !.name = dst.name, !.mtime = Now]
       IN IF f.io = "noread"
            THEN [err |-> TRUE, disk |-> others \cup {partial}]
          ELSE [err |-> src.dir \in ev.ro, disk |-> others \cup {whole}]

copyAndDelete(dk, ds, ev, src, dst) ==
  IF ~Exists(dk, src) \/ FileAt(dk, src).io = "noopen"
    THEN [err |-> TRUE, disk |-> dk]
  ELSE IF dst.dir \notin ds \/ (~Exists(dk, dst) /\ dst.dir \in ev.ro)
    THEN [err |-> TRUE, disk |-> dk]
  ELSE LET f == FileAt(dk, src)
           others == {g \in dk : PathOf(g) # dst}
           partial == [dir |-> dst.dir, name |-> dst.name, content |-> Partial,
                       mtime |-> Now, io |-> "ok"]
           whole == [f EXCEPT !.dir = dst.dir, !.name = dst.name, !.mtime = Now]
       IN IF src = dst
            \* os.Create has emptied the file that is being read.
            THEN IF f.io = "noread" \/ src.dir \in ev.ro
                   THEN [err |-> TRUE, disk |-> others \cup {partial}]
                   ELSE [err |-> FALSE, disk |-> others]
          ELSE IF f.io = "noread"
            THEN [err |-> TRUE, disk |-> others \cup {partial}]
          ELSE IF src.dir \in ev.ro
            THEN [err |-> TRUE, disk |-> others \cup {whole}]
          ELSE [err |-> FALSE, disk |-> {g \in others : PathOf(g) # src} \cup {whole}]

\* atomicMove (the same code in FileOrganizer and DuplicateHandler).
atomicMove(dk, ds, ev, src, dst) ==
  LET r == osRename(dk, ds, ev, src, dst) IN
  IF ~r.err THEN r ELSE copyAndDelete(dk, ds, ev, src, dst)

\* os.MkdirAll of a folder whose parent exists: [err, dirs].
osMkdirAll(ds, ev, d) ==
  IF d \in ds THEN [err |-> FALSE, dirs |-> ds]
  ELSE IF Parent(d) \in ev.ro THEN [err |-> TRUE, dirs |-> ds]
  ELSE [err |-> FALSE, dirs |-> ds \cup {d}]

\* os.RemoveAll of a folder: its files go unless the folder is read-only,
\* and then the folder itself unless its parent is read-only.  The program
\* ignores the error.
osRemoveAll(dk, ds, ev, d) ==
  IF d \notin ds THEN [disk |-> dk, dirs |-> ds]
  ELSE IF d \in ev.ro THEN [disk |-> dk, dirs |-> ds]
  ELSE [disk |-> {f \in dk : f.dir # d},
        dirs |-> IF Parent(d) \in ev.ro THEN ds ELSE ds \ {d}]

\* ------------------------------------------------------------------------
\* File contents
\*
\* Blobs[c] is what the program can observe of the bytes c: their length,
\* and the central directory when they are a zip archive.
\* ------------------------------------------------------------------------

KiB == 2 ^ 10

MiB == 1024 * 1024

Entry(name, usize, csize) ==
  [name |-> name, isDir |-> FALSE, usize |-> usize, csize |-> csize]

NoEntry == Entry(<< >>, Zero64, Zero64)

NotAZip == [openable |-> FALSE, n |-> 0, head |-> << >>, fill |-> NoEntry]

Archive(entries) ==
  [openable |-> TRUE, n |-> Len(entries), head |-> entries, fill |-> NoEntry]

Blobs ==
  [c \in 0..4 |->
     CASE c = 0 -> [size |-> 0, zip |-> NotAZip]
       [] c = 1 -> [size |-> 5, zip |-> NotAZip]
       [] c = 2 -> [size |-> MiB, zip |-> NotAZip]
       [] c = 3 -> [size |-> 2 * KiB,
                    zip |-> Archive(<< Entry(<<"x", ".", "p", "n", "g">>, U64(KiB), U64(512)),
                                       Entry(<<"y", ".", "j", "p", "g">>, U64(KiB), U64(512)),
                                       Entry(<<"r", ".", "t", "x", "t">>, U64(KiB), U64(512)) >>)]
       [] c = 4 -> [size |-> 4 * KiB,
                    zip |-> Archive(<< Entry(<<"r", ".", "t", "x", "t">>, U64(KiB), U64(512)),
                                       Entry(<<"b", "i", "g", ".", "p", "d", "f">>, U64(200 * MiB), U64(KiB)) >>)]]

\* md5 of the bytes, in hex; the empty string stands for "no hash".
Digest(c) == << "md5", c >>

EmptyHash == << >>

\* ------------------------------------------------------------------------
\* validatePath
\* ------------------------------------------------------------------------

\* The elements of a path: the runs of characters between its slashes.
RECURSIVE Elements(_)
Elements(s) ==
  IF s = << >> THEN << >>
  ELSE IF Head(s) = "/" THEN Elements(Tail(s))
  ELSE LET i == CHOOSE k \in 1..Len(s) :
                  /\ \A j \in 1..k : s[j] # "/"
                  /\ (k = Len(s) \/ s[k + 1] = "/")
       IN << SubSeq(s, 1, i) >> \o Elements(SubSeq(s, i + 1, Len(s)))

\* filepath.Clean of the elements of a path, rooted or not: "." elements
\* go, ".." takes the element before it away, and at the root goes itself.
RECURSIVE CleanElements(_, _, _)
CleanElements(els, kept, rooted) ==
  IF els = << >> THEN kept
  ELSE LET e == Head(els)
           next == IF e = <<".">> THEN kept
                   ELSE IF e # <<".", ".">> THEN Append(kept, e)
                   ELSE IF kept # << >> /\ kept[Len(kept)] # <<".", ".">>
                     THEN SubSeq(kept, 1, Len(kept) - 1)
                   ELSE IF rooted THEN kept
                   ELSE Append(kept, e)
       IN CleanElements(Tail(els), next, rooted)

RECURSIVE JoinElements(_)
JoinElements(els) ==
  IF els = << >> THEN << >>
  ELSE IF Len(els) = 1 THEN els[1]
  ELSE els[1] \o <<"/">> \o JoinElements(Tail(els))

\* filepath.Clean
Clean(s) ==
  LET rooted == s # << >> /\ s[1] = "/"
      body == JoinElements(CleanElements(Elements(s), << >>, rooted))
  IN IF rooted THEN <<"/">> \o body
     ELSE IF body = << >> THEN <<".">>
     ELSE body

\* filepath.Abs in the working directory wd.
Abs(path, wd) ==
  IF path # << >> /\ path[1] = "/" THEN Clean(path)
  ELSE Clean(wd \o <<"/">> \o path)

\* validatePath (main.go lines 16-48): the error, "" for nil.  home is
\* what os.UserHomeDir returns ("" when it fails), temp what os.TempDir
\* returns.
validatePath(path, wd, home, temp) ==
  LET absPath == Abs(path, wd) IN
  IF path = << >> THEN "path cannot be empty"
  ELSE IF Contains(absPath, <<".", ".">>) THEN "path traversal not allowed"
  ELSE IF home = << >> THEN "cannot determine home directory"
  ELSE IF /\ ~HasPrefix(absPath, home)
          /\ ~HasPrefix(absPath, temp)
          /\ ~HasPrefix(absPath, <<"/", "t", "m", "p">>)
          /\ ~HasPrefix(absPath, <<"/", "v", "a", "r", "/", "f", "o", "l", "d", "e", "r", "s">>)
    THEN "path must be within user directory or temp directory"
  ELSE ""

\* ------------------------------------------------------------------------
\* Standard input
\*
\* `stdin.buf` holds the characters that were typed and are not read yet,
\* `stdin.eof` tells that nothing more will come.  The operator types one
\* line at a time, when the program waits for one; a read finds either
\* characters or the end of the input.
\* ------------------------------------------------------------------------

NoInput == [buf |-> << >>, eof |-> FALSE]

\* The lines an operator types: answers to the confirmation prompt and to
\* "Which file would you like to keep?", in range and out of range, with
\* more than one word, without any, and no number at all.  (No line holds
\* a sign, an underscore or a base prefix such as 0x.)
Lines ==
  { <<"y">>, <<"y", "e", "s">>, <<"Y", "E", "S">>, <<" ", "y", "e", "s", " ">>,
    <<"y", "e", "s", " ", "n", "o">>, <<"n">>, << >>,
    <<"0">>, <<"1">>, <<"2">>, <<"3">>, <<"9">>, <<"2", " ", "x">>, <<"1", "2", "a", "b", " ", "c", "d">> }

\* The program is at a read of standard input: the confirmation prompt
\* (main.go line 148), the question about a duplicate group, or the read
\* that clears the line after a bad answer (strategy.md lines 546, 551).
AtRead ==
  \/ pc = "confirm" /\ ~flags.dryRun /\ ~flags.force
  \/ pc = "interactive" /\ todo # << >>
  \/ pc = "discard"

\* The operator types a line and presses return.
TypeLine ==
  /\ AtRead
  /\ stdin.buf = << >>
  /\ ~stdin.eof
  /\ \E l \in Lines : stdin' = [stdin EXCEPT !.buf = l \o <<"\n">>]
  /\ UNCHANGED << pc, flags, env, disk, dirs, scanVars, todo, stats, out, start, zipVars >>

\* The input ends: the operator presses control-D, or the pipe that feeds
\* the program is closed.
CloseInput ==
  /\ AtRead
  /\ ~stdin.eof
  /\ stdin' = [stdin EXCEPT !.eof = TRUE]
  /\ UNCHANGED << pc, flags, env, disk, dirs, scanVars, todo, stats, out, start, zipVars >>

\* A read does not wait: there is something typed, or the input has ended.
CanRead == stdin.buf # << >> \/ stdin.eof

\* fmt.Scanln: blanks before an operand are skipped; the operand of a
\* string is the run of characters up to the next blank or newline, the
\* operand of an int a run of digits (octal after a leading 0); after the
\* operand only blanks may come before the newline, and the first other
\* character is consumed and reported as an error, the operand having been
\* stored already.  A newline, or the end of the input, in place of the
\* operand is an error and stores nothing.
RECURSIVE SkipSpace(_)
SkipSpace(s) == IF s # << >> /\ Head(s) = " " THEN SkipSpace(Tail(s)) ELSE s

RECURSIVE Run(_, _)
Run(s, ok) ==
  IF s # << >> /\ Head(s) \in ok THEN << Head(s) >> \o Run(Tail(s), ok) ELSE << >>

NotSpace == {Alphabet[i] : i \in 1..Len(Alphabet)} \ {" "}

DigitsBelow(base) == {Digits[i] : i \in 1..base}

RECURSIVE Number(_, _)
Number(tok, base) ==
  IF tok = << >> THEN 0
  ELSE Number(SubSeq(tok, 1, Len(tok) - 1), base) * base
         + ((CHOOSE i \in 1..base : Digits[i] = tok[Len(tok)]) - 1)

EndOfLine(s) ==
  LET t == SkipSpace(s) IN
  IF t = << >> THEN [err |-> FALSE, rest |-> << >>]
  ELSE [err |-> Head(t) # "\n", rest |-> Tail(t)]

\* fmt.Scanln(&response) and fmt.Scanln(&discard): [err, set, val, rest].
ScanlnString(s) ==
  LET t == SkipSpace(s) IN
  IF t = << >> THEN [err |-> TRUE, set |-> FALSE, val |-> << >>, rest |-> << >>]
  ELSE IF Head(t) = "\n"
    THEN [err |-> TRUE, set |-> FALSE, val |-> << >>, rest |-> Tail(t)]
  ELSE LET tok == Run(t, NotSpace)
           e == EndOfLine(SubSeq(t, Len(tok) + 1, Len(t)))
       IN [err |-> e.err, set |-> TRUE, val |-> tok, rest |-> e.rest]

\* fmt.Scanln(&choice), choice an int.
ScanlnInt(s) ==
  LET t == SkipSpace(s) IN
  IF t = << >> THEN [err |-> TRUE, set |-> FALSE, val |-> 0, rest |-> << >>]
  ELSE IF Head(t) = "\n"
    THEN [err |-> TRUE, set |-> FALSE, val |-> 0, rest |-> Tail(t)]
  ELSE LET base == IF Head(t) = "0" THEN 8 ELSE 10
           tok == Run(t, DigitsBelow(base))
           e == EndOfLine(SubSeq(t, Len(tok) + 1, Len(t)))
       IN IF tok = << >>
            THEN [err |-> TRUE, set |-> FALSE, val |-> 0, rest |-> t]
            ELSE [err |-> e.err, set |-> TRUE, val |-> Number(tok, base), rest |-> e.rest]

\* strings.TrimSpace
RECURSIVE TrimSpace(_)
TrimSpace(s) ==
  IF s = << >> THEN s
  ELSE IF Head(s) \in {" ", "\n"} THEN TrimSpace(Tail(s))
  ELSE IF s[Len(s)] \in {" ", "\n"} THEN TrimSpace(SubSeq(s, 1, Len(s) - 1))
  ELSE s

\* ------------------------------------------------------------------------
\* Scanner.ScanDirectory
\* ------------------------------------------------------------------------

RootPath == <<"/", "h", "o", "m", "e", "/", "u", "/", "d", "l">>

\* The home folder of the user who runs the program, the temp folder of
\* the system, and the folder the program is started in.
HomeDir == <<"/", "h", "o", "m", "e", "/", "u">>

TempDir == <<"/", "t", "m", "p">>

WorkDir == RootPath

\* The scan root of most runs: a folder at RootPath.
HomeRoot == [path |-> RootPath, kind |-> "dir"]

\* filepath.Base and filepath.Dir of a path without a trailing slash.
LastSlash(s) ==
  LET at == {i \in 1..Len(s) : s[i] = "/"} IN
  IF at = {} THEN 0 ELSE CHOOSE i \in at : \A j \in at : j <= i

BaseName(s) == SubSeq(s, LastSlash(s) + 1, Len(s))

DirName(s) == SubSeq(s, 1, LastSlash(s) - 1)

\* The path string the walk hands to its callback: the root as it was
\* given, joined with the way down to the entry.  An entry with the empty
\* name is the folder itself.
PathString(root, p) ==
  LET d == p.dir
      folder == IF d = Base THEN root
                ELSE IF d[1] = Outside
                  THEN IF Len(d) = 1 THEN DirName(root)
                       ELSE DirName(root) \o <<"/">> \o d[2]
                ELSE root \o <<"/">> \o d[1]
  IN IF p.name = << >> THEN folder ELSE folder \o <<"/">> \o p.name

MinName(S) == CHOOSE s \in S : \A u \in S \ {s} : LexLess(s, u)

RECURSIVE SortNames(_)
SortNames(S) ==
  IF S = {} THEN << >>
  ELSE LET m == MinName(S) IN << m >> \o SortNames(S \ {m})

\* The files of one folder, in the order filepath.Walk reads them.
FilesIn(dk, d) ==
  LET names == SortNames({f.name : f \in {g \in dk : g.dir = d}})
  IN [i \in 1..Len(names) |-> Join(d, names[i])]

\* What the callback does for a folder below the root (scanner.go lines
\* 63-75): SkipDir for hidden folders and .app bundles.
SkipsDir(name) == HasPrefix(name, <<".">>) \/ HasSuffix(name, <<".", "a", "p", "p">>)

\* The calls of the callback that do something, in order: one for each
\* file, and for a folder that is not skipped and cannot be read the second
\* call, the one that carries the error of reading it (an entry with the
\* empty name).
RECURSIVE WalkEntries(_, _, _, _)
WalkEntries(dk, ds, closed, names) ==
  IF names = << >> THEN << >>
  ELSE LET e == Head(names)
           here == IF << e >> \in ds
                     THEN IF SkipsDir(e) THEN << >>
                          ELSE IF << e >> \in closed THEN << Join(<< e >>, << >>) >>
                          ELSE FilesIn(dk, << e >>)
                     ELSE << Join(Base, e) >>
       IN here \o WalkEntries(dk, ds, closed, Tail(names))

\* The walk below a root folder that is entered.
WalkList(dk, ds, closed) ==
  LET top == {f.name : f \in {g \in dk : g.dir = Base}}
               \cup {d[1] : d \in {e \in ds : Len(e) = 1 /\ e[1] # Outside}}
  IN IF Base \in closed THEN << Join(Base, << >>) >>
     ELSE WalkEntries(dk, ds, closed, SortNames(top))

\* filepath.Walk(root, ...): a root that is a regular file is handed to the
\* callback as a file (it lies in the folder above, under the root's base
\* name); a root folder is handed over first, under the base name of the
\* path as given, and SkipDir for it ends the walk.
WalkRoot(dk, ds, ev) ==
  IF ev.root.kind = "file" THEN << Join(<< Outside >>, BaseName(ev.root.path)) >>
  ELSE IF SkipsDir(BaseName(ev.root.path)) THEN << >>
  ELSE WalkList(dk, ds, ev.closed)

\* Scanner.calculateFileHash: "" when the file cannot be read.
calculateFileHash(f) == IF f.io = "ok" THEN Digest(f.content) ELSE EmptyHash

\* The FileInfo the callback builds (scanner.go lines 93-120).
NewFileInfo(f) ==
  LET e == ToLower(Ext(f.name))
      ext == IF e = << >> THEN NoExtension ELSE e
  IN [Path |-> PathOf(f), Name |-> f.name, Size |-> Blobs[f.content].size,
      Extension |-> ext, Category |-> determineCategory(ext, f.name),
      Hash |-> calculateFileHash(f), LastModified |-> f.mtime,
      IsDuplicate |-> FALSE, IsZip |-> (ext = <<".", "z", "i", "p">>)]

\* s.Categories[category] = append(s.Categories[category], fileInfo)
AppendTo(m, k, v) ==
  [j \in DOMAIN m \cup {k} |->
     IF j = k THEN (IF k \in DOMAIN m THEN Append(m[k], v) ELSE << v >>) ELSE m[j]]

EmptyMap == [j \in {} |-> << >>]

\* The walk callback for one file (scanner.go lines 77-127).
WalkFile ==
  /\ pc = "walk"
  /\ todo # << >>
  /\ Head(todo).name # << >>
  /\ LET p == Head(todo)
         f == FileAt(disk, p)
     IN IF \/ HasPrefix(p.name, <<".">>)
           \/ Contains(PathString(env.root.path, p), <<".", "a", "p", "p", "/", "C", "o", "n", "t", "e", "n", "t", "s", "/">>)
           \/ f.io = "noopen"
          THEN UNCHANGED scanVars
          ELSE LET fi == NewFileInfo(f) IN
               /\ Files' = Append(Files, fi)
               /\ Categories' = AppendTo(Categories, fi.Category, fi)
               /\ UNCHANGED Duplicates
  /\ todo' = Tail(todo)
  /\ UNCHANGED << pc, flags, env, disk, dirs, stats, out, start, zipVars, stdin >>

\* The walk callback called with the error of reading a folder (scanner.go
\* lines 58-60): it hands the error back, the walk stops, ScanDirectory
\* returns "error scanning directory" (lines 130-132) and main returns it
\* (main.go lines 168-171).
WalkError ==
  /\ pc = "walk"
  /\ todo # << >>
  /\ Head(todo).name = << >>
  /\ pc' = "failed"
  /\ todo' = << >>
  /\ UNCHANGED << flags, env, disk, dirs, scanVars, stats, out, start, zipVars, stdin >>

\* Scanner.findDuplicates: the groups are copies of the records taken
\* before any flag is set; the flags are set in s.Files only.
\* (First a variant that groups the records without a hash as well.)
DuplicateGroups_EmptyHashToo(files) ==
  LET hashes == {files[i].Hash : i \in 1..Len(files)}
      group(h) == SelectSeq(files, LAMBDA fi : fi.Hash = h)
  IN [h \in {g \in hashes : Len(group(g)) > 1} |-> group(h)]

DuplicateGroups(files) ==
  LET hashes == {files[i].Hash : i \in 1..Len(files)} \ {EmptyHash}
      group(h) == SelectSeq(files, LAMBDA fi : fi.Hash = h)
  IN [h \in {g \in hashes : Len(group(g)) > 1} |-> group(h)]

MarkDuplicates(files, groups) ==
  [j \in 1..Len(files) |->
     IF \E h \in DOMAIN groups : \E i \in 1..Len(groups[h]) :
          /\ groups[h][i].Path = files[j].Path
          /\ \A k \in 1..(j-1) : files[k].Path # files[j].Path
       THEN [files[j] EXCEPT !.IsDuplicate = TRUE]
       ELSE files[j]]

\* How many times findDuplicates assigns s.Files[j].IsDuplicate (scanner.go
\* lines 210-218): once for every member of a group whose first match in
\* s.Files is the record j.
flagWrites(files, groups, j) ==
  Cardinality({hi \in UNION {{<< h, i >> : i \in 1..Len(groups[h])} : h \in DOMAIN groups} :
                 /\ groups[hi[1]][hi[2]].Path = files[j].Path
                 /\ \A k \in 1..(j-1) : files[k].Path # files[j].Path})

\* ScanDirectory after the walk (scanner.go lines 130-138): findDuplicates.
\* (First a variant that does not wait for the walk to return.)
FindDuplicates_DuringWalk ==
  /\ pc = "walk"
  /\ Duplicates' = DuplicateGroups(Files)
  /\ Files' = MarkDuplicates(Files, Duplicates')
  /\ pc' = "duplicates"
  /\ UNCHANGED << flags, env, disk, dirs, Categories, todo, stats, out, start, zipVars, stdin >>

FindDuplicates ==
  /\ pc = "walk"
  /\ todo = << >>
  /\ Duplicates' = DuplicateGroups(Files)
  /\ Files' = MarkDuplicates(Files, Duplicates')
  /\ pc' = "duplicates"
  /\ UNCHANGED << flags, env, disk, dirs, Categories, todo, stats, out, start, zipVars, stdin >>

\* ------------------------------------------------------------------------
\* DuplicateHandler
\* ------------------------------------------------------------------------

NoFolder == << << >> >>

Report(op, p) == [op |-> op, path |-> p]

\* The dispatch in main (main.go lines 177-214) and the first lines of the
\* handler it calls.
DuplicateMode(fl) ==
  IF fl.interactive THEN "interactive"
  ELSE IF fl.pattern THEN "pattern"
  ELSE IF fl.moveDuplicates # NoFolder THEN "move"
  ELSE IF fl.removeDuplicates THEN "remove"
  ELSE "none"

\* The orders in which a range over a map may hand out its keys.
RECURSIVE Orders(_)
Orders(S) ==
  IF S = {} THEN {<< >>}
  ELSE UNION {{<< h >> \o o : o \in Orders(S \ {h})} : h \in S}

BeginDuplicates ==
  /\ pc = "duplicates"
  /\ LET mode == DuplicateMode(flags)
         mk == osMkdirAll(dirs, env, flags.moveDuplicates)
         moveFolder == PathString(env.root.path, Join(flags.moveDuplicates, << >>))
     IN IF mode = "none"
          THEN pc' = "organize" /\ todo' = {} /\ UNCHANGED dirs
        ELSE IF mode = "move" /\ validatePath(moveFolder, WorkDir, HomeDir, TempDir) # ""
          THEN pc' = "failed" /\ todo' = {} /\ UNCHANGED dirs
        ELSE IF mode = "move" /\ DOMAIN Duplicates # {} /\ ~flags.dryRun
          THEN /\ dirs' = mk.dirs
               /\ pc' = IF mk.err THEN "failed" ELSE "move"
               /\ todo' = IF mk.err THEN {} ELSE DOMAIN Duplicates
        ELSE /\ pc' = mode
             /\ todo' \in IF mode = "interactive" THEN Orders(DOMAIN Duplicates)
                          ELSE {DOMAIN Duplicates}
             /\ UNCHANGED dirs
  /\ UNCHANGED << flags, env, disk, scanVars, stats, out, start, zipVars, stdin >>

\* "Find the newest file to keep" (strategy.md lines 461-466): a later
\* member replaces the candidate only when it is strictly newer.
RECURSIVE newestFrom(_, _, _)
newestFrom(files, i, best) ==
  IF i > Len(files) THEN best
  ELSE newestFrom(files, i + 1,
                  IF files[i].LastModified > best.LastModified THEN files[i] ELSE best)

newestFile(files) == newestFrom(files, 1, files[1])

\* One disposal (strategy.md lines 480-492): s is [disk, stats, out].
removeOne(s, file, dry, ev) ==
  LET r == osRemove(s.disk, ev, file.Path) IN
  IF ~dry /\ r.err THEN s
  ELSE [disk |-> IF dry THEN s.disk ELSE r.disk,
        stats |-> [s.stats EXCEPT !.count = @ + 1, !.bytes = @ + file.Size],
        out |-> s.out \cup {Report("remove", file.Path)}]

\* "Remove all other duplicates" (strategy.md lines 475-493).
RECURSIVE removeOthers(_, _, _, _, _)
removeOthers(files, keep, s, dry, ev) ==
  IF files = << >> THEN s
  ELSE removeOthers(Tail(files), keep,
                    IF Head(files).Path = keep.Path THEN s
                    ELSE removeOne(s, Head(files), dry, ev),
                    dry, ev)

Working == [disk |-> disk, stats |-> stats, out |-> out]

\* One pass of the loop of RemoveDuplicates over Scanner.Duplicates.
RemoveDuplicatesGroup ==
  /\ pc = "remove"
  /\ \E h \in todo :
       LET files == Duplicates[h]
           keep == newestFile(files)
           s == removeOthers(files, keep,
                             [Working EXCEPT !.out = @ \cup {Report("keep", keep.Path)}],
                             flags.dryRun, env)
       IN /\ disk' = s.disk
          /\ stats' = s.stats
          /\ out' = s.out
          /\ todo' = todo \ {h}
  /\ UNCHANGED << pc, flags, env, dirs, scanVars, start, zipVars, stdin >>

\* The candidate after "originalFile = &files[0]" and the loop that follows
\* (strategy.md lines 643-648).  With one loop variable for the whole loop
\* (Go before 1.22) "&file" aliases it: once taken, the candidate is
\* compared with itself and ends as the last member.  With a variable per
\* iteration (Go 1.22 on) the candidate is the newest member.
RECURSIVE aliasedFrom(_, _, _)
aliasedFrom(files, i, aliased) ==
  IF i > Len(files) THEN aliased
  ELSE aliasedFrom(files, i + 1,
                   aliased \/ (~aliased /\ files[i].LastModified > files[1].LastModified))

fallbackOriginal(files, ev) ==
  IF ev.loopVar = "shared"
    THEN IF aliasedFrom(files, 1, FALSE) THEN files[Len(files)] ELSE files[1]
    ELSE newestFile(files)

\* The members RemoveDuplicatesByPattern keeps and removes (strategy.md
\* lines 629-655): [keep, copies].
\* (First a variant that takes newest-wins over the whole group.)
patternPlan_NewestOverall(files, ev) ==
  LET o == newestFile(files) IN
  [keep |-> o, copies |-> SelectSeq(files, LAMBDA f : f.Path # o.Path)]

patternPlan(files, ev) ==
  LET originals == SelectSeq(files, LAMBDA f : isOriginalFile(f.Name))
      copies == SelectSeq(files, LAMBDA f : ~isOriginalFile(f.Name))
  IN IF originals # << >>
       THEN [keep |-> originals[Len(originals)], copies |-> copies]
       ELSE LET o == fallbackOriginal(files, ev) IN
            [keep |-> o,
             copies |-> copies \o SelectSeq(files, LAMBDA f : f.Path # o.Path)]

\* "Remove copy files" (strategy.md lines 660-675).
RECURSIVE removeAll(_, _, _, _)
removeAll(files, s, dry, ev) ==
  IF files = << >> THEN s
  ELSE removeAll(Tail(files), removeOne(s, Head(files), dry, ev), dry, ev)

\* One pass of the loop of RemoveDuplicatesByPattern.
RemoveByPatternGroup ==
  /\ pc = "pattern"
  /\ \E h \in todo :
       LET plan == patternPlan(Duplicates[h], env)
           s == removeAll(plan.copies,
                          [Working EXCEPT !.out = @ \cup {Report("keep", plan.keep.Path)}],
                          flags.dryRun, env)
       IN /\ disk' = s.disk
          /\ stats' = s.stats
          /\ out' = s.out
          /\ todo' = todo \ {h}
  /\ UNCHANGED << pc, flags, env, dirs, scanVars, start, zipVars, stdin >>

\* One relocation of MoveDuplicatesToFolder (strategy.md lines 766-780).
moveOneDuplicate(s, file, dest, dry, ds, ev) ==
  LET r == atomicMove(s.disk, ds, ev, file.Path, Join(dest, file.Name)) IN
  IF ~dry /\ r.err THEN [s EXCEPT !.disk = r.disk]
  ELSE [disk |-> IF dry THEN s.disk ELSE r.disk,
        stats |-> [s.stats EXCEPT !.count = @ + 1, !.bytes = @ + file.Size],
        out |-> s.out \cup {Report("move", file.Path)}]

\* "Move all other duplicates" (strategy.md lines 760-781).
RECURSIVE moveOthers(_, _, _, _, _, _, _)
moveOthers(files, keep, s, dest, dry, ds, ev) ==
  IF files = << >> THEN s
  ELSE moveOthers(Tail(files), keep,
                  IF Head(files).Path = keep.Path THEN s
                  ELSE moveOneDuplicate(s, Head(files), dest, dry, ds, ev),
                  dest, dry, ds, ev)

\* One pass of the loop of MoveDuplicatesToFolder.
MoveDuplicatesGroup ==
  /\ pc = "move"
  /\ \E h \in todo :
       LET files == Duplicates[h]
           keep == newestFile(files)
           s == moveOthers(files, keep,
                           [Working EXCEPT !.out = @ \cup {Report("keep", keep.Path)}],
                           flags.moveDuplicates, flags.dryRun, dirs, env)
       IN /\ disk' = s.disk
          /\ stats' = s.stats
          /\ out' = s.out
          /\ todo' = todo \ {h}
  /\ UNCHANGED << pc, flags, env, dirs, scanVars, start, zipVars, stdin >>

\* "Remove other files" of RemoveDuplicatesInteractive (strategy.md lines
\* 569-588): every member but the one at the chosen position.
RECURSIVE removeButIndex(_, _, _, _, _, _)
removeButIndex(files, i, choice, s, dry, ev) ==
  IF i > Len(files) THEN s
  ELSE removeButIndex(files, i + 1, choice,
                      IF i = choice THEN s ELSE removeOne(s, files[i], dry, ev),
                      dry, ev)

\* One prompt of RemoveDuplicatesInteractive for the group it is at
\* (strategy.md lines 544-591): `todo` holds the groups in the order the
\* range hands them out, the one being asked about first.
InteractivePrompt ==
  /\ pc = "interactive"
  /\ todo # << >>
  /\ CanRead
  /\ LET files == Duplicates[Head(todo)]
         r == ScanlnInt(stdin.buf)
     IN /\ stdin' = [stdin EXCEPT !.buf = r.rest]
        /\ IF r.err
             THEN pc' = "discard" /\ UNCHANGED << disk, stats, out, todo >>
           ELSE IF r.val = 0
             THEN todo' = Tail(todo) /\ UNCHANGED << pc, disk, stats, out >>
           ELSE IF r.val < 1 \/ r.val > Len(files)
             THEN UNCHANGED << pc, disk, stats, out, todo >>
           ELSE LET s == removeButIndex(files, 1, r.val,
                           [Working EXCEPT !.out = @ \cup {Report("keep", files[r.val].Path)}],
                           flags.dryRun, env)
                IN /\ disk' = s.disk
                   /\ stats' = s.stats
                   /\ out' = s.out
                   /\ todo' = Tail(todo)
                   /\ UNCHANGED pc
  /\ UNCHANGED << flags, env, dirs, scanVars, start, zipVars >>

\* "Clear the input buffer" after a read that failed (strategy.md lines
\* 547-553): fmt.Scanln(&discard), and the prompt again.
InteractiveDiscard ==
  /\ pc = "discard"
  /\ CanRead
  /\ stdin' = [stdin EXCEPT !.buf = ScanlnString(stdin.buf).rest]
  /\ pc' = "interactive"
  /\ UNCHANGED << flags, env, disk, dirs, scanVars, todo, stats, out, start, zipVars >>

\* The handler returns nil and main goes on to the organizer.
FinishDuplicates ==
  /\ pc \in {"remove", "interactive", "pattern", "move"}
  /\ todo = IF pc = "interactive" THEN << >> ELSE {}
  /\ pc' = "organize"
  /\ UNCHANGED << flags, env, disk, dirs, scanVars, todo, stats, out, start, zipVars, stdin >>

\* ------------------------------------------------------------------------
\* FileOrganizer
\* ------------------------------------------------------------------------

\* FileOrganizer.CategoryMap, with the default for a category it lacks.
CategoryFolder(category) ==
  CASE category = "Images" -> <<"I", "m", "a", "g", "e", "s">>
    [] category = "Documents" -> <<"D", "o", "c", "u", "m", "e", "n", "t", "s">>
    [] category = "Videos" -> <<"V", "i", "d", "e", "o", "s">>
    [] category = "Music" -> <<"M", "u", "s", "i", "c">>
    [] category = "Applications" -> <<"A", "p", "p", "l", "i", "c", "a", "t", "i", "o", "n", "s">>
    [] category = "Archives" -> <<"A", "r", "c", "h", "i", "v", "e", "s">>
    [] category = "Disk Images" -> <<"D", "i", "s", "k", " ", "I", "m", "a", "g", "e", "s">>
    [] OTHER -> <<"O", "t", "h", "e", "r">>

TestPermissions == << <<".", "t", "e", "s", "t", "_", "p", "e", "r", "m", "i", "s", "s", "i", "o", "n", "s">> >>

\* The inner loop body shared by OrganizeFiles, OrganizeByDate and
\* OrganizeBySize (organizer.go lines 160-186): s is [disk, stats, out].
\* (First a variant without the os.Stat of the destination.)
moveOneFile_NoExistsCheck(s, file, target, dry, ds, ev) ==
  LET dest == Join(target, file.Name)
      r == atomicMove(s.disk, ds, ev, file.Path, dest)
  IN IF file.Path.dir = target
       THEN [s EXCEPT !.stats.skipped = @ + 1]
     ELSE IF dry
       THEN [s EXCEPT !.stats.moved = @ + 1, !.out = @ \cup {Report("move", file.Path)}]
     ELSE IF r.err
       THEN [s EXCEPT !.disk = r.disk, !.stats.skipped = @ + 1]
     ELSE [s EXCEPT !.disk = r.disk, !.stats.moved = @ + 1,
                    !.out = @ \cup {Report("move", file.Path)}]

moveOneFile(s, file, target, dry, ds, ev) ==
  LET dest == Join(target, file.Name)
      r == atomicMove(s.disk, ds, ev, file.Path, dest)
  IN IF file.Path.dir = target
       THEN [s EXCEPT !.stats.skipped = @ + 1]
     ELSE IF Exists(s.disk, dest)
       THEN [s EXCEPT !.stats.skipped = @ + 1]
     ELSE IF dry
       THEN [s EXCEPT !.stats.moved = @ + 1, !.out = @ \cup {Report("move", file.Path)}]
     ELSE IF r.err
       THEN [s EXCEPT !.disk = r.disk, !.stats.skipped = @ + 1]
     ELSE [s EXCEPT !.disk = r.disk, !.stats.moved = @ + 1,
                    !.out = @ \cup {Report("move", file.Path)}]

\* "Move each file to its category folder" (organizer.go lines 154-187):
\* records flagged IsDuplicate are passed over.
RECURSIVE moveFiles(_, _, _, _, _, _)
moveFiles(files, s, target, dry, ds, ev) ==
  IF files = << >> THEN s
  ELSE moveFiles(Tail(files),
                 IF Head(files).IsDuplicate THEN s
                 ELSE moveOneFile(s, Head(files), target, dry, ds, ev),
                 target, dry, ds, ev)

\* The folder step of OrganizeFiles (organizer.go lines 127-149): MkdirAll,
\* or in a dry run the probe that creates and removes .test_permissions
\* when the folder does not exist yet.  [err, disk, dirs].
prepareFolder(dk, ds, ev, target, dry) ==
  LET mk == osMkdirAll(ds, ev, target)
      probe == osMkdirAll(ds, ev, TestPermissions)
      after == osRemoveAll(dk, probe.dirs, ev, TestPermissions)
  IN IF ~dry THEN [err |-> mk.err, disk |-> dk, dirs |-> mk.dirs]
     ELSE IF target \in ds THEN [err |-> FALSE, disk |-> dk, dirs |-> ds]
     ELSE IF probe.err THEN [err |-> TRUE, disk |-> dk, dirs |-> ds]
     ELSE [err |-> FALSE, disk |-> after.disk, dirs |-> after.dirs]

\* One pass of the loop of OrganizeFiles over Scanner.Categories.
OrganizeCategory ==
  /\ pc = "category"
  /\ \E c \in todo :
       LET target == << CategoryFolder(c) >>
           pre == prepareFolder(disk, dirs, env, target, flags.dryRun)
           s == IF pre.err THEN [Working EXCEPT !.disk = pre.disk]
                ELSE moveFiles(Categories[c], [Working EXCEPT !.disk = pre.disk],
                               target, flags.dryRun, pre.dirs, env)
       IN /\ disk' = s.disk
          /\ dirs' = pre.dirs
          /\ stats' = s.stats
          /\ out' = s.out
          /\ todo' = todo \ {c}
  /\ UNCHANGED << pc, flags, env, scanVars, start, zipVars, stdin >>

\* time.Format("2006-01") of a modification time.  Instant 1 is in August
\* 2025, instants 2 and 3 in September, and so on by twos.
MonthIndex(time) == 2025 * 12 + 7 + (time \div 2)

FormatYearMonth(time) ==
  LET y == MonthIndex(time) \div 12
      m == (MonthIndex(time) % 12) + 1
  IN << Digit(y \div 1000), Digit((y \div 100) % 10), Digit((y \div 10) % 10),
        Digit(y % 10), "-", Digit(m \div 10), Digit(m % 10) >>

\* "Group files by date" (organizer.go lines 213-223).
NotDuplicate(files) == SelectSeq(files, LAMBDA f : ~f.IsDuplicate)

DateKeys(files) ==
  {FormatYearMonth(NotDuplicate(files)[i].LastModified) : i \in 1..Len(NotDuplicate(files))}

DateGroup(files, key) ==
  SelectSeq(NotDuplicate(files), LAMBDA f : FormatYearMonth(f.LastModified) = key)

\* "Move each file to its date folder" and "... size folder" (organizer.go
\* lines 240-268 and 339-367).
RECURSIVE moveGroup(_, _, _, _, _, _)
moveGroup(files, s, target, dry, ds, ev) ==
  IF files = << >> THEN s
  ELSE moveGroup(Tail(files), moveOneFile(s, Head(files), target, dry, ds, ev),
                 target, dry, ds, ev)

\* One pass of the loop of OrganizeByDate over dateGroups.
OrganizeDate ==
  /\ pc = "date"
  /\ \E key \in todo :
       LET target == << key >>
           mk == IF flags.dryRun THEN [err |-> FALSE, dirs |-> dirs]
                 ELSE osMkdirAll(dirs, env, target)
           s == IF mk.err THEN Working
                ELSE moveGroup(DateGroup(Files, key), Working, target,
                               flags.dryRun, mk.dirs, env)
       IN /\ disk' = s.disk
          /\ dirs' = mk.dirs
          /\ stats' = s.stats
          /\ out' = s.out
          /\ todo' = todo \ {key}
  /\ UNCHANGED << pc, flags, env, scanVars, start, zipVars, stdin >>

\* sizeCategories (organizer.go lines 292-302); -1 is "no bound".
sizeCategories ==
  << [name |-> <<"T", "i", "n", "y">>, min |-> 0, max |-> MiB],
     [name |-> <<"S", "m", "a", "l", "l">>, min |-> MiB, max |-> 10 * MiB],
     [name |-> <<"M", "e", "d", "i", "u", "m">>, min |-> 10 * MiB, max |-> 100 * MiB],
     [name |-> <<"L", "a", "r", "g", "e">>, min |-> 100 * MiB, max |-> 1024 * MiB],
     [name |-> <<"H", "u", "g", "e">>, min |-> 1024 * MiB, max |-> -1] >>

\* (First a variant whose upper bound is inclusive.)
InSizeCategory_InclusiveMax(files, sc) ==
  SelectSeq(NotDuplicate(files),
            LAMBDA f : /\ (sc.min = -1 \/ f.Size >= sc.min)
                       /\ (sc.max = -1 \/ f.Size <= sc.max))

\* filesToMove (organizer.go lines 309-320).
InSizeCategory(files, sc) ==
  SelectSeq(NotDuplicate(files),
            LAMBDA f : /\ (sc.min = -1 \/ f.Size >= sc.min)
                       /\ (sc.max = -1 \/ f.Size < sc.max))

\* One pass of the loop of OrganizeBySize over sizeCategories.
OrganizeSize ==
  /\ pc = "size"
  /\ todo # << >>
  /\ LET sc == Head(todo)
         target == << sc.name >>
         files == InSizeCategory(Files, sc)
         mk == IF flags.dryRun \/ files = << >> THEN [err |-> FALSE, dirs |-> dirs]
               ELSE osMkdirAll(dirs, env, target)
         s == IF mk.err THEN Working
              ELSE moveGroup(files, Working, target, flags.dryRun, mk.dirs, env)
     IN /\ disk' = s.disk
        /\ dirs' = mk.dirs
        /\ stats' = s.stats
        /\ out' = s.out
        /\ todo' = Tail(todo)
  /\ UNCHANGED << pc, flags, env, scanVars, start, zipVars, stdin >>

\* ------------------------------------------------------------------------
\* FileOrganizer.analyzeZipContents and ProcessZipFiles
\* ------------------------------------------------------------------------

ZipImageExts ==
  { <<".", "j", "p", "g">>,
    <<".", "j", "p", "e", "g">>,
    <<".", "p", "n", "g">>,
    <<".", "g", "i", "f">>,
    <<".", "b", "m", "p">>,
    <<".", "t", "i", "f", "f">>,
    <<".", "s", "v", "g">>,
    <<".", "w", "e", "b", "p">> }

ZipDocumentExts ==
  { <<".", "p", "d", "f">>,
    <<".", "d", "o", "c">>,
    <<".", "d", "o", "c", "x">>,
    <<".", "t", "x", "t">>,
    <<".", "r", "t", "f">>,
    <<".", "o", "d", "t">>,
    <<".", "x", "l", "s">>,
    <<".", "x", "l", "s", "x">>,
    <<".", "p", "p", "t">>,
    <<".", "p", "p", "t", "x">> }

ZipVideoExts ==
  { <<".", "m", "p", "4">>,
    <<".", "a", "v", "i">>,
    <<".", "m", "k", "v">>,
    <<".", "m", "o", "v">>,
    <<".", "w", "m", "v">>,
    <<".", "f", "l", "v">>,
    <<".", "w", "e", "b", "m">> }

ZipAudioExts ==
  { <<".", "m", "p", "3">>,
    <<".", "w", "a", "v">>,
    <<".", "f", "l", "a", "c">>,
    <<".", "a", "a", "c">>,
    <<".", "o", "g", "g">>,
    <<".", "w", "m", "a">> }

ZipApplicationExts ==
  { <<".", "e", "x", "e">>,
    <<".", "m", "s", "i">>,
    <<".", "d", "m", "g">>,
    <<".", "p", "k", "g">>,
    <<".", "a", "p", "p">>,
    <<".", "d", "e", "b">>,
    <<".", "r", "p", "m">> }

ZipFontExts ==
  { <<".", "t", "t", "f">>,
    <<".", "o", "t", "f">>,
    <<".", "w", "o", "f", "f">>,
    <<".", "w", "o", "f", "f", "2">>,
    <<".", "e", "o", "t">> }

ZipCodeExts ==
  { <<".", "j", "s">>,
    <<".", "p", "y">>,
    <<".", "j", "a", "v", "a">>,
    <<".", "c", "p", "p">>,
    <<".", "c">>,
    <<".", "c", "s">>,
    <<".", "p", "h", "p">>,
    <<".", "r", "b">>,
    <<".", "g", "o">>,
    <<".", "r", "s">>,
    <<".", "s", "w", "i", "f", "t">>,
    <<".", "k", "t">>,
    <<".", "h", "t", "m", "l">>,
    <<".", "c", "s", "s">>,
    <<".", "s", "c", "s", "s">>,
    <<".", "s", "q", "l">>,
    <<".", "s", "h">>,
    <<".", "j", "s", "o", "n">>,
    <<".", "x", "m", "l">>,
    <<".", "y", "a", "m", "l">>,
    <<".", "y", "m", "l">> }

\* f.FileInfo().IsDir() of an archive entry: the mode bits of its header
\* say so, or its name ends in a slash.
IsDir(e) == e.isDir \/ HasSuffix(e.name, <<"/">>)

\* The tally of one bucket (organizer.go lines 481-504).
CountEntries(z, exts) ==
  Cardinality({i \in 1..z.n :
                 /\ ~IsDir(EntryAt(z, i))
                 /\ ToLower(Ext(EntryAt(z, i).name)) \in exts})

\* The seven counters after the loop over r.File.
zipTally(z) ==
  [imageCount |-> CountEntries(z, ZipImageExts),
   documentCount |-> CountEntries(z, ZipDocumentExts),
   videoCount |-> CountEntries(z, ZipVideoExts),
   audioCount |-> CountEntries(z, ZipAudioExts),
   applicationCount |-> CountEntries(z, ZipApplicationExts),
   fontCount |-> CountEntries(z, ZipFontExts),
   codeCount |-> CountEntries(z, ZipCodeExts)]

\* (First a variant of the comparison that lets a later bucket win a tie.)
Dominant_NotStrict(best, count, category) ==
  IF count >= best.max THEN [max |-> count, category |-> category] ELSE best

\* One "if count > maxCount" of the chain (organizer.go lines 510-537).
Dominant(best, count, category) ==
  IF count > best.max THEN [max |-> count, category |-> category] ELSE best

\* (A variant of the analysis that answers "Other" whenever the highest
\* count is shared.)
analyzeZipContents_TiesToOther(z) ==
  LET t == zipTally(z)
      counts == << t.imageCount, t.documentCount, t.videoCount, t.audioCount,
                   t.applicationCount, t.fontCount, t.codeCount >>
      folders == << "Images", "Documents", "Videos", "Music", "Applications",
                    "Other", "Other" >>
      top == {i \in 1..7 : \A j \in 1..7 : counts[i] >= counts[j]}
  IN IF Cardinality(top) = 1 /\ counts[CHOOSE i \in top : TRUE] > 0
       THEN folders[CHOOSE i \in top : TRUE]
       ELSE "Other"

\* The counting loop runs once (organizer.go lines 482-504) and the chain of
\* comparisons then reads its seven counters (lines 506-539).
analyzeZipContents(z) ==
  LET Chain(t) ==
        LET b0 == [max |-> 0, category |-> "Other"]
            b1 == Dominant(b0, t.imageCount, "Images")
            b2 == Dominant(b1, t.documentCount, "Documents")
            b3 == Dominant(b2, t.videoCount, "Videos")
            b4 == Dominant(b3, t.audioCount, "Music")
            b5 == Dominant(b4, t.applicationCount, "Applications")
            b6 == Dominant(b5, t.fontCount, "Other")
            b7 == Dominant(b6, t.codeCount, "Other")
        IN b7.category
  IN CHOOSE c \in {Chain(t) : t \in {zipTally(z)}} : TRUE

\* What zip.OpenReader reads from the file at p, and checkZipBomb of it.
ZipAt(dk, p) ==
  IF Exists(dk, p) /\ FileAt(dk, p).io = "ok"
    THEN Blobs[FileAt(dk, p).content].zip
    ELSE NotAZip

SizeAt(dk, p) == IF Exists(dk, p) THEN Blobs[FileAt(dk, p).content].size ELSE 0

\* (First a variant of the check that lets every file through.)
checkZipBombAt_AlwaysPasses(dk, p) == ""

checkZipBombAt(dk, p) == checkZipBomb(Exists(dk, p), SizeAt(dk, p), ZipAt(dk, p))

\* One pass of the loop of ProcessZipFiles (organizer.go lines 400-459).
processOneZip(s, ds, ev, zipFile, dry) ==
  LET p == zipFile.Path
      category == analyzeZipContents(ZipAt(s.disk, p))
      target == << CategoryFolder(category) >>
      mk == IF dry THEN [err |-> FALSE, dirs |-> ds] ELSE osMkdirAll(ds, ev, target)
      r == atomicMove(s.disk, mk.dirs, ev, p, Join(target, zipFile.Name))
      passed == [s EXCEPT !.out = @ \cup {Report("screened", p)}]
  IN IF zipFile.IsDuplicate
       THEN [s |-> s, dirs |-> ds]
     ELSE IF checkZipBombAt(s.disk, p) # ""
       THEN [s |-> [s EXCEPT !.stats.skipped = @ + 1,
                             !.out = @ \cup {Report("suspicious", p)}],
             dirs |-> ds]
     ELSE IF mk.err
       THEN [s |-> [passed EXCEPT !.stats.skipped = @ + 1], dirs |-> ds]
     ELSE IF dry
       THEN [s |-> [passed EXCEPT !.stats.moved = @ + 1,
                                  !.out = @ \cup {Report("move", p)}],
             dirs |-> ds]
     ELSE IF r.err
       THEN [s |-> [passed EXCEPT !.disk = r.disk, !.stats.skipped = @ + 1],
             dirs |-> mk.dirs]
     ELSE [s |-> [passed EXCEPT !.disk = r.disk, !.stats.moved = @ + 1,
                                !.out = @ \cup {Report("move", p)}],
           dirs |-> mk.dirs]

ProcessZip ==
  /\ pc = "zips"
  /\ todo # << >>
  /\ LET r == processOneZip(Working, dirs, env, Head(todo), flags.dryRun) IN
       /\ disk' = r.s.disk
       /\ dirs' = r.dirs
       /\ stats' = r.s.stats
       /\ out' = r.s.out
  /\ todo' = Tail(todo)
  /\ UNCHANGED << pc, flags, env, scanVars, start, zipVars, stdin >>

\* The dispatch in main (main.go lines 217-249) and the first lines of the
\* operation it calls.
OrganizeMode(fl) ==
  IF fl.byDate THEN "date"
  ELSE IF fl.bySize THEN "size"
  ELSE IF fl.processZips THEN "zips"
  ELSE IF fl.organize THEN "category"
  ELSE "done"

BeginOrganize ==
  /\ pc = "organize"
  /\ pc' = OrganizeMode(flags)
  /\ todo' = CASE pc' = "date" -> DateKeys(Files)
               [] pc' = "size" -> sizeCategories
               [] pc' = "zips" -> IF "Archives" \in DOMAIN Categories
                                    THEN Categories["Archives"] ELSE << >>
               [] pc' = "category" -> DOMAIN Categories
               [] OTHER -> {}
  /\ UNCHANGED << flags, env, disk, dirs, scanVars, stats, out, start, zipVars, stdin >>

\* The operation returns nil and main ends the run.
FinishOrganize ==
  /\ pc \in {"category", "date", "size", "zips"}
  /\ todo = IF pc \in {"size", "zips"} THEN << >> ELSE {}
  /\ pc' = "done"
  /\ UNCHANGED << flags, env, disk, dirs, scanVars, todo, stats, out, start, zipVars, stdin >>

\* The program is run once more on the same folder with the same options
\* (organizer.go lines 867-874, "Running the Tool Repeatedly"): a new
\* Scanner, a fresh walk of the disk as the run before left it.  `start`
\* keeps the start of the run before under `before`.
RunAgain ==
  /\ pc = "done"
  /\ "before" \notin DOMAIN start
  /\ pc' = "walk"
  /\ todo' = WalkRoot(disk, dirs, env)
  /\ Files' = << >>
  /\ Categories' = EmptyMap
  /\ Duplicates' = EmptyMap
  /\ stats' = [count |-> 0, bytes |-> 0, moved |-> 0, skipped |-> 0]
  /\ out' = {}
  /\ start' = [disk |-> disk, dirs |-> dirs, before |-> start]
  /\ UNCHANGED << flags, env, disk, dirs, zipVars, stdin >>

\* ------------------------------------------------------------------------
\* checkZipBomb in isolation, one entry of r.File per step
\* ------------------------------------------------------------------------

\* organizer.go lines 52-67.
ZipOpen ==
  /\ pc = "zip"
  /\ zst.at = "open"
  /\ LET e == zipBombOpen(zip.exists, zip.fileSize, zip.arc.openable) IN
       zst' = [zst EXCEPT !.at = IF e = "" THEN "loop" ELSE "err", !.err = e]
  /\ UNCHANGED << pc, flags, env, disk, dirs, scanVars, todo, stats, out, start, zip, stdin >>

\* organizer.go lines 73-91.
ZipEntry ==
  /\ pc = "zip"
  /\ zst.at = "loop"
  /\ zst.i <= zip.arc.n
  /\ LET st == zipBombLoopBody([entryCount |-> zst.entryCount,
                                totalSize |-> zst.totalSize, err |-> ""],
                               EntryAt(zip.arc, zst.i))
     IN zst' = [at |-> IF st.err = "" THEN "loop" ELSE "err", i |-> zst.i + 1,
                entryCount |-> st.entryCount, totalSize |-> st.totalSize,
                err |-> st.err]
  /\ UNCHANGED << pc, flags, env, disk, dirs, scanVars, todo, stats, out, start, zip, stdin >>

\* organizer.go line 93.
ZipReturn ==
  /\ pc = "zip"
  /\ zst.at = "loop"
  /\ zst.i > zip.arc.n
  /\ zst' = [zst EXCEPT !.at = "nil"]
  /\ UNCHANGED << pc, flags, env, disk, dirs, scanVars, todo, stats, out, start, zip, stdin >>

\* ------------------------------------------------------------------------
\* Initial states
\* ------------------------------------------------------------------------

NoFlags ==
  [dryRun |-> FALSE, removeDuplicates |-> FALSE, interactive |-> FALSE,
   pattern |-> FALSE, moveDuplicates |-> NoFolder, organize |-> FALSE,
   byDate |-> FALSE, bySize |-> FALSE, processZips |-> FALSE, force |-> FALSE]

NoStats == [count |-> 0, bytes |-> 0, moved |-> 0, skipped |-> 0]

IdleZip == [exists |-> FALSE, fileSize |-> 0, arc |-> NotAZip]

IdleZst == [at |-> "idle", i |-> 1, entryCount |-> 0, totalSize |-> Zero64, err |-> ""]

File(d, name, content, mtime) ==
  [dir |-> d, name |-> name, content |-> content, mtime |-> mtime, io |-> "ok"]

\* The sets of at most k files of a pool, no two at the same path.
RECURSIVE Picks(_, _)
Picks(pool, k) ==
  IF k = 0 THEN {{}}
  ELSE LET less == Picks(pool, k - 1) IN
       less \cup UNION {{S \cup {f} : f \in {g \in pool : \A h \in S : PathOf(h) # PathOf(g)}}
                          : S \in less}

\* A run of the clean action from the start of the scan: the disk holds the
\* files dk and their folders (and the folders `more`), under flags fl on
\* the machine ev.
RunStarts(dk, more, fl, ev) ==
  /\ disk = dk
  /\ dirs = {Base} \cup {f.dir : f \in dk} \cup more
  /\ flags = fl
  /\ env = ev
  /\ pc = "walk"
  /\ todo = WalkRoot(disk, dirs, env)
  /\ Files = << >>
  /\ Categories = EmptyMap
  /\ Duplicates = EmptyMap
  /\ stats = NoStats
  /\ out = {}
  /\ start = [disk |-> disk, dirs |-> dirs]
  /\ zip = IdleZip
  /\ zst = IdleZst
  /\ stdin = NoInput

\* File names and folders of the runs explored.
NameA == <<"a", ".", "t", "x", "t">>

NameB == <<"b", ".", "t", "x", "t">>

NameA1 == <<"a", " ", "(", "1", ")", ".", "t", "x", "t">>

NameACopy == <<"a", " ", "c", "o", "p", "y", ".", "t", "x", "t">>

NameZ == <<"z", ".", "z", "i", "p">>

Sub == << <<"s", "u", "b">> >>

Dups == << <<"d", "u", "p", "s">> >>

OutsideDups == << Outside, <<"d", "u", "p", "s">> >>

\* The most files on disk when a run starts.
MaxFiles == 3

Times == 1..MaxTime

\* Machines: which of the folders `some` are read-only, which are on
\* another volume than the rest, and how the build scopes loop variables.
Machines(ros, fars, loops) ==
  [ro : ros, far : fars, loopVar : loops, root : {HomeRoot}, closed : {{}}]

\* --- Duplicate resolution: remove, pattern, move ---

DupPool ==
  {File(d, n, 1, time) : d \in {Base, Dups}, n \in {NameA, NameB, NameA1, NameACopy},
                         time \in Times}

DupFlags ==
  { [NoFlags EXCEPT !.removeDuplicates = TRUE],
    [NoFlags EXCEPT !.pattern = TRUE],
    [NoFlags EXCEPT !.moveDuplicates = Dups],
    [NoFlags EXCEPT !.moveDuplicates = OutsideDups] }

InitDup ==
  \E dk \in Picks(DupPool, MaxFiles) : \E fl \in DupFlags :
  \E ev \in Machines({{}, {Base}}, {{}, {Dups}},
                     IF fl.pattern THEN {"shared", "fresh"} ELSE {"shared"}) :
     RunStarts(dk, {}, fl, ev)

Scan == WalkFile \/ FindDuplicates

NextDup ==
  \/ Scan
  \/ BeginDuplicates
  \/ RemoveDuplicatesGroup
  \/ RemoveByPatternGroup
  \/ MoveDuplicatesGroup
  \/ FinishDuplicates

SpecDup == InitDup /\ [][NextDup]_vars

\* --- Organizing: by category, by date, by size, process-zips ---

OrgFlags ==
  { [NoFlags EXCEPT !.organize = TRUE],
    [NoFlags EXCEPT !.byDate = TRUE],
    [NoFlags EXCEPT !.bySize = TRUE],
    [NoFlags EXCEPT !.processZips = TRUE] }

\* The folder an operation files a text file (an archive) of the pool
\* under, where a file of that name may lie already.
HomeOfText(fl) ==
  CASE OrganizeMode(fl) = "category" -> << CategoryFolder("Documents") >>
    [] OrganizeMode(fl) = "date" -> << FormatYearMonth(1) >>
    [] OrganizeMode(fl) = "size" -> << sizeCategories[1].name >>
    [] OTHER -> Sub

HomeOfZip(fl) ==
  CASE OrganizeMode(fl) = "category" -> << CategoryFolder("Archives") >>
    [] OrganizeMode(fl) = "date" -> << FormatYearMonth(1) >>
    [] OrganizeMode(fl) = "size" -> << sizeCategories[1].name >>
    [] OTHER -> << CategoryFolder("Images") >>

OrgPool(fl) ==
  {File(d, NameA, c, time) : d \in {Base, Sub, HomeOfText(fl)}, c \in {1, 2}, time \in Times}
  \cup
  {File(d, NameZ, c, time) : d \in {Base, Sub, HomeOfZip(fl)}, c \in {3, 4}, time \in Times}

InitOrg ==
  \E fl \in OrgFlags : \E dk \in Picks(OrgPool(fl), MaxFiles) :
  \E ev \in Machines({{}, {Base}}, {{}, {Sub}}, {"shared"}) :
     RunStarts(dk, {}, fl, ev)

NextOrg ==
  \/ Scan
  \/ BeginDuplicates
  \/ BeginOrganize
  \/ OrganizeCategory
  \/ OrganizeDate
  \/ OrganizeSize
  \/ ProcessZip
  \/ FinishOrganize

SpecOrg == InitOrg /\ [][NextOrg]_vars

\* --- Organizing twice: by category, by date, by size ---

AgainFlags ==
  { [NoFlags EXCEPT !.organize = TRUE],
    [NoFlags EXCEPT !.byDate = TRUE],
    [NoFlags EXCEPT !.bySize = TRUE] }

InitAgain ==
  \E fl \in AgainFlags : \E dk \in Picks(OrgPool(fl), MaxFiles) :
  \E ev \in Machines({{}, {Base}}, {{}, {Sub}}, {"shared"}) :
     RunStarts(dk, {}, fl, ev)

NextAgain ==
  \/ Scan
  \/ BeginDuplicates
  \/ BeginOrganize
  \/ OrganizeCategory
  \/ OrganizeDate
  \/ OrganizeSize
  \/ FinishOrganize
  \/ RunAgain

SpecAgain == InitAgain /\ [][NextAgain]_vars

\* --- The clean action as a whole, under every combination of options ---

NameKeep == <<"k", "e", "e", "p", ".", "t", "x", "t">>

AllFlags ==
  [dryRun : BOOLEAN, removeDuplicates : BOOLEAN, interactive : BOOLEAN,
   pattern : BOOLEAN, moveDuplicates : {NoFolder, Dups}, organize : BOOLEAN,
   byDate : BOOLEAN, bySize : BOOLEAN, processZips : BOOLEAN, force : {FALSE}]

RunPool ==
  {File(Base, n, 1, time) : n \in {NameA, NameA1}, time \in Times}
  \cup {File(Base, NameZ, 3, 1), File(TestPermissions, NameKeep, 2, 1)}

Init ==
  \E fl \in AllFlags : \E dk \in Picks(RunPool, MaxFiles) :
  \E more \in {{}, {TestPermissions}} :
  \E ev \in Machines({{}}, {{}}, {"shared"}) :
     RunStarts(dk, more, fl, ev)

Next ==
  \/ Scan
  \/ BeginDuplicates
  \/ RemoveDuplicatesGroup
  \/ RemoveByPatternGroup
  \/ MoveDuplicatesGroup
  \/ InteractivePrompt
  \/ InteractiveDiscard
  \/ TypeLine
  \/ CloseInput
  \/ FinishDuplicates
  \/ BeginOrganize
  \/ OrganizeCategory
  \/ OrganizeDate
  \/ OrganizeSize
  \/ ProcessZip
  \/ FinishOrganize

Spec == Init /\ [][Next]_vars

\* --- The scan: what the root is, and what cannot be opened or read ---

NameHidden == <<".", "h", ".", "t", "x", "t">>

HiddenDir == << <<".", "g", "i", "t">> >>

BundleDir == << <<"X", ".", "a", "p", "p">> >>

\* Root folders given as ".", under a hidden name, under a bundle name and
\* inside a bundle.
OddRoots ==
  { [path |-> <<".">>, kind |-> "dir"],
    [path |-> <<"/", "h", "o", "m", "e", "/", "u", "/", ".", "d", "l">>, kind |-> "dir"],
    [path |-> <<"/", "h", "o", "m", "e", "/", "u", "/", "d", "l", ".", "a", "p", "p">>, kind |-> "dir"],
    [path |-> <<"/", "h", "o", "m", "e", "/", "u", "/", "X", ".", "a", "p", "p", "/",
                "C", "o", "n", "t", "e", "n", "t", "s", "/", "d", "l">>, kind |-> "dir"] }

\* Files below the root: two contents, and files that cannot be opened or
\* cannot be read once open.
ScanPool ==
  {[File(p[1], p[2], v[1], 1) EXCEPT !.io = v[2]] :
      p \in ({Base} \X {NameA, NameB, NameHidden}) \cup ({Sub} \X {NameA, NameB})
               \cup ({HiddenDir} \X {NameA}) \cup ({BundleDir} \X {NameA}),
      v \in {<<1, "ok">>, <<2, "ok">>, <<1, "noopen">>, <<1, "noread">>}}

ScanFlags ==
  {[NoFlags EXCEPT !.force = TRUE],
   [NoFlags EXCEPT !.force = TRUE, !.removeDuplicates = TRUE]}

\* The clean action before the scan: the flags are read and the root given.
RunBegins(dk, ds, fl, ev) ==
  /\ disk = dk
  /\ dirs = ds
  /\ flags = fl
  /\ env = ev
  /\ pc = "main"
  /\ todo = << >>
  /\ Files = << >>
  /\ Categories = EmptyMap
  /\ Duplicates = EmptyMap
  /\ stats = NoStats
  /\ out = {}
  /\ start = [disk |-> disk, dirs |-> dirs]
  /\ zip = IdleZip
  /\ zst = IdleZst
  /\ stdin = NoInput

InitScan ==
  \E fl \in ScanFlags : \E ev \in Machines({{}}, {{}}, {"shared"}) :
    \/ \E dk \in Picks(ScanPool, MaxFiles) :
       \E root \in {HomeRoot} \cup OddRoots :
       \E closed \in IF root = HomeRoot THEN {{}, {Sub}, {Base}} ELSE {{}} :
         RunBegins(dk, {Base} \cup {f.dir : f \in dk}, fl,
                   [ev EXCEPT !.root = root, !.closed = closed])
    \/ RunBegins({File(<< Outside >>, BaseName(RootPath), 1, 1)}, {<< Outside >>}, fl,
                 [ev EXCEPT !.root = [path |-> RootPath, kind |-> "file"]])
    \/ RunBegins({}, {<< Outside >>}, fl,
                 [ev EXCEPT !.root = [path |-> RootPath, kind |-> "missing"]])

\* The clean action up to the warning (main.go lines 118-131):
\* validatePath of the root, then os.Stat of it, and only "does not
\* exist" ends the run.
BeginScan ==
  /\ pc = "main"
  /\ pc' = IF validatePath(env.root.path, WorkDir, HomeDir, TempDir) # "" THEN "failed"
           ELSE IF env.root.kind = "missing" THEN "failed"
           ELSE "confirm"
  /\ UNCHANGED << flags, env, disk, dirs, scanVars, todo, stats, out, start, zipVars, stdin >>

\* The confirmation and the start of the scan (main.go lines 133-167): a
\* run that is neither a dry run nor forced reads one answer, lower-cases
\* it, and returns nil unless it is "y" or "yes".
Confirm ==
  /\ pc = "confirm"
  /\ IF flags.dryRun \/ flags.force
       THEN /\ pc' = "walk"
            /\ todo' = WalkRoot(disk, dirs, env)
            /\ UNCHANGED stdin
       ELSE /\ CanRead
            /\ LET r == ScanlnString(stdin.buf)
                   response == ToLower(TrimSpace(IF r.set THEN r.val ELSE << >>))
               IN /\ stdin' = [stdin EXCEPT !.buf = r.rest]
                  /\ IF response # <<"y">> /\ response # <<"y", "e", "s">>
                       THEN pc' = "cancelled" /\ UNCHANGED todo
                       ELSE pc' = "walk" /\ todo' = WalkRoot(disk, dirs, env)
  /\ UNCHANGED << flags, env, disk, dirs, scanVars, stats, out, start, zipVars >>

NextScan ==
  \/ BeginScan
  \/ Confirm
  \/ Scan
  \/ WalkError
  \/ BeginDuplicates
  \/ RemoveDuplicatesGroup
  \/ FinishDuplicates

SpecScan == InitScan /\ [][NextScan]_vars

\* --- The prompts: the confirmation and the interactive resolution ---

\* Up to three files of two contents: no group, one group of two or of
\* three members, or (with a fourth file) two groups.
AskPool == {File(Base, n, c, 1) : n \in {NameA, NameB, NameA1}, c \in {1, 2}}

\* Duplicates resolved interactively or automatically, then organized by
\* category; as a dry run or not, forced or not.
AskFlags ==
  {[NoFlags EXCEPT !.dryRun = d, !.force = f, !.interactive = i,
                   !.removeDuplicates = ~i, !.organize = TRUE] :
      d \in BOOLEAN, f \in BOOLEAN, i \in BOOLEAN}

InitAsk ==
  \E fl \in AskFlags : \E dk \in Picks(AskPool, MaxFiles) :
  \E ev \in Machines({{}}, {{}}, {"shared"}) :
     RunBegins(dk, {Base}, fl, ev)

\* The steps of the program, and the steps of the operator.
ProgramAsk ==
  \/ BeginScan
  \/ Confirm
  \/ Scan
  \/ BeginDuplicates
  \/ RemoveDuplicatesGroup
  \/ InteractivePrompt
  \/ InteractiveDiscard
  \/ FinishDuplicates
  \/ BeginOrganize
  \/ OrganizeCategory
  \/ FinishOrganize

NextAsk == ProgramAsk \/ TypeLine \/ CloseInput

\* The program takes its next step whenever it has one; the operator is
\* under no obligation.
SpecAsk == InitAsk /\ [][NextAsk]_vars /\ WF_vars(ProgramAsk)

\* The same runs, where all that is asked is that RemoveDuplicatesInteractive
\* takes its next step whenever it has one (it is a loop of one goroutine
\* that waits for nothing but its reads of standard input, and a read at
\* the end of the input returns at once).
PromptLoop == InteractivePrompt \/ InteractiveDiscard \/ FinishDuplicates

SpecPrompt == InitAsk /\ [][NextAsk]_vars /\ WF_vars(PromptLoop)

\* The archives checkZipBomb is run on in isolation: every archive of at
\* most MaxHead entries drawn from ZipEntryKinds, with a file size at, below
\* and above the ceiling; archives that are missing or cannot be opened; and
\* archives of maxZipEntries and maxZipEntries + 1 small entries.
MaxHead == 2

\* 2^64 - 1, and 184467440737095516, which is under 1% of it.
AllOnes64 == [i \in 1..4 |-> LimbBase - 1]

JustUnderOnePercent == << 36700, 62914, 23592, 655 >>

ZipEntryKinds ==
  { Entry(<<"a", ".", "t", "x", "t">>, U64(KiB), U64(512)),
    Entry(<<"d", "/">>, Zero64, Zero64),
    Entry(<<"b", ".", "b", "i", "n">>, U64(MiB + 1), Zero64),
    Entry(<<"c", ".", "b", "i", "n">>, U64(MiB), Zero64),
    Entry(<<"e", ".", "b", "i", "n">>, U64(200 * MiB), U64(2 * MiB)),
    Entry(<<"f", ".", "b", "i", "n">>, U64(500 * MiB), U64(500 * MiB)),
    Entry(<<"g", ".", "b", "i", "n">>, U64(500 * MiB + 1), U64(500 * MiB)),
    Entry(<<"h", ".", "b", "i", "n">>, Pow2(63), Pow2(63)),
    Entry(<<"i", ".", "b", "i", "n">>, AllOnes64, JustUnderOnePercent) }

RECURSIVE SeqsUpTo(_, _)
SeqsUpTo(S, k) ==
  IF k = 0 THEN {<< >>}
  ELSE LET less == SeqsUpTo(S, k - 1) IN
       less \cup {Append(s, e) : s \in less, e \in S}

SmallEntry == Entry(<<"a", ".", "t", "x", "t">>, U64(KiB), U64(512))

ZipInputs ==
  {[exists |-> TRUE, fileSize |-> size, arc |-> Archive(h)] :
      size \in {maxZipSize - 1, maxZipSize, maxZipSize + 1},
      h \in SeqsUpTo(ZipEntryKinds, MaxHead)}
  \cup
  {[exists |-> e, fileSize |-> KiB, arc |-> NotAZip] : e \in BOOLEAN}
  \cup
  {[exists |-> TRUE, fileSize |-> maxZipSize,
    arc |-> [openable |-> TRUE, n |-> n, head |-> h, fill |-> SmallEntry]] :
      n \in {maxZipEntries, maxZipEntries + 1},
      h \in SeqsUpTo({Entry(<<"d", "/">>, Zero64, Zero64)}, 1)}

InitZip ==
  /\ zip \in ZipInputs
  /\ zst = [IdleZst EXCEPT !.at = "open"]
  /\ pc = "zip"
  /\ flags = NoFlags
  /\ env \in Machines({{}}, {{}}, {"shared"})
  /\ disk = {}
  /\ dirs = {Base}
  /\ Files = << >>
  /\ Categories = EmptyMap
  /\ Duplicates = EmptyMap
  /\ todo = << >>
  /\ stats = NoStats
  /\ out = {}
  /\ start = [disk |-> {}, dirs |-> {Base}]
  /\ stdin = NoInput

NextZip == ZipOpen \/ ZipEntry \/ ZipReturn

SpecZip == InitZip /\ [][NextZip]_vars

\* ------------------------------------------------------------------------
\* The functions of the program that depend on their arguments alone, each
\* run once on an argument drawn from a bounded set: `zip` holds the call
\* and `zst` its locals and result.
\* ------------------------------------------------------------------------

\* The most entries of the archives analyzeZipContents is handed.
MaxTally == 4

\* Every extension either table names, an extension neither names, and no
\* extension at all.
KnownExts ==
  ImageExts \cup DocumentExts \cup VideoExts \cup MusicExts \cup ApplicationExts
    \cup ArchiveExts \cup DiskImageExts
    \cup ZipImageExts \cup ZipDocumentExts \cup ZipVideoExts \cup ZipAudioExts
    \cup ZipApplicationExts \cup ZipFontExts \cup ZipCodeExts
    \cup {<<".", "b", "i", "n">>, << >>}

Named(stem, ext, dir) ==
  [Entry(stem \o ext, U64(KiB), U64(512)) EXCEPT !.isDir = dir]

\* One entry for each bucket, one that no bucket counts, and two folders.
TallyKinds ==
  { Named(<<"p">>, <<".", "J", "P", "G">>, FALSE),
    Named(<<"d">>, <<".", "p", "d", "f">>, FALSE),
    Named(<<"v">>, <<".", "m", "p", "4">>, FALSE),
    Named(<<"s">>, <<".", "m", "p", "3">>, FALSE),
    Named(<<"a">>, <<".", "e", "x", "e">>, FALSE),
    Named(<<"f">>, <<".", "t", "t", "f">>, FALSE),
    Named(<<"m">>, <<".", "g", "o">>, FALSE),
    Named(<<"u">>, <<".", "b", "i", "n">>, FALSE),
    Named(<<"i", ".", "p", "n", "g">>, <<"/">>, FALSE),
    Named(<<"j">>, <<".", "p", "n", "g">>, TRUE) }

TallyInputs ==
  {[fn |-> "analyzeZipContents", arc |-> Archive(h)] :
      h \in SeqsUpTo(TallyKinds, MaxTally)}
  \cup
  {[fn |-> "analyzeZipContents", arc |-> Archive(<< Named(<<"x">>, e, d) >>)] :
      e \in KnownExts, d \in BOOLEAN}

\* analyzeZipContents of an open archive (organizer.go lines 472-540).
AnalyzeZip ==
  /\ pc = "unit"
  /\ zip.fn = "analyzeZipContents"
  /\ zst.at = "call"
  /\ zst' = [at |-> "return", tally |-> zipTally(zip.arc),
             ret |-> analyzeZipContents(zip.arc)]
  /\ UNCHANGED << pc, flags, env, disk, dirs, scanVars, todo, stats, out, start, zip, stdin >>

\* File sizes at, just below and just above every threshold of
\* sizeCategories, and the smallest and largest sizes the model can hold
\* (a larger size compares with the thresholds as the largest one does).
SizeInputs ==
  {[fn |-> "sizeCategory", size |-> k * MiB + d] :
      k \in {0, 1, 5, 10, 50, 100, 500, 1024, 2047}, d \in {0, 1, 2, MiB - 2, MiB - 1}}

\* The size categories whose filesToMove holds a file of the given size
\* (organizer.go lines 308-320), in the order of sizeCategories.
SizeCategoriesOf(size) ==
  LET file == [Size |-> size, IsDuplicate |-> FALSE] IN
  SelectSeq([i \in 1..Len(sizeCategories) |-> sizeCategories[i]],
            LAMBDA sc : InSizeCategory(<< file >>, sc) # << >>)

BucketSize ==
  /\ pc = "unit"
  /\ zip.fn = "sizeCategory"
  /\ zst.at = "call"
  /\ zst' = [at |-> "return",
             ret |-> LET cs == SizeCategoriesOf(zip.size)
                     IN [i \in 1..Len(cs) |-> cs[i].name]]
  /\ UNCHANGED << pc, flags, env, disk, dirs, scanVars, todo, stats, out, start, zip, stdin >>

\* File names determineCategory is asked about: stems with and without the
\* words it looks for, under extensions of every category, an extension
\* of none, and no extension; the extension is handed over as
\* ScanDirectory prepares it (scanner.go lines 94-97).
ClassifyStems ==
  { <<"g", "u", "i", "d", "e">>,
    <<"s", "e", "t", "u", "p">>,
    <<"M", "a", "n", "u", "a", "l">>,
    <<"i", "n", "s", "t", "a", "l", "l", "e", "r">>,
    <<"I", "n", "s", "t", "a", "l", "l", "-", "G", "u", "i", "d", "e">>,
    <<"m", "a", "n", "u", "a", "l", " ", "S", "E", "T", "U", "P">>,
    <<"n", "o", "t", "e", "s">>,
    <<"i", "m", "a", "g", "e">> }

ClassifyExts ==
  { <<".", "j", "p", "g">>, <<".", "P", "D", "F">>, <<".", "t", "x", "t">>,
    <<".", "m", "p", "4">>, <<".", "m", "p", "3">>, <<".", "e", "x", "e">>,
    <<".", "z", "i", "p">>, <<".", "i", "s", "o">>, <<".", "d", "m", "g">>,
    <<".", "x", "y", "z">>, <<".", "X", "Y", "Z">>, << >> }

ClassifyInputs ==
  {[fn |-> "determineCategory", name |-> s \o e,
    ext |-> IF e = << >> THEN NoExtension ELSE ToLower(e)] :
      s \in ClassifyStems, e \in ClassifyExts}

\* determineCategory (scanner.go lines 142-169).
Classify ==
  /\ pc = "unit"
  /\ zip.fn = "determineCategory"
  /\ zst.at = "call"
  /\ zst' = [at |-> "return", ret |-> determineCategory(zip.ext, zip.name)]
  /\ UNCHANGED << pc, flags, env, disk, dirs, scanVars, todo, stats, out, start, zip, stdin >>

\* The moves: a file a.txt of the root, which may be gone, unopenable or
\* unreadable, moved to a name in the root (its own included) or in the
\* folder sub, which may be missing, read-only or on another volume, and
\* where a file of the name may lie already.
MovePool ==
  {[File(Base, NameA, 2, 1) EXCEPT !.io = io] : io \in {"ok", "noopen", "noread"}}
    \cup {File(Base, NameB, 1, 2), File(Sub, NameA, 1, 2)}

MoveInputs ==
  {[fn |-> "atomicMove", src |-> Join(Base, NameA), dst |-> Join(d, n)] :
      d \in {Base, Sub}, n \in {NameA, NameB}}
  \cup
  {[fn |-> "copyAndDelete", src |-> Join(Base, NameA), dst |-> p] :
      p \in {Join(Base, NameB), Join(Sub, NameA)}}

\* atomicMove (organizer.go lines 97-106, strategy.md lines 428-437) or
\* copyAndDelete (organizer.go lines 543-571, strategy.md lines 796-824).
Move ==
  /\ pc = "unit"
  /\ zip.fn \in {"atomicMove", "copyAndDelete"}
  /\ zst.at = "call"
  /\ LET r == IF zip.fn = "atomicMove"
                THEN atomicMove(disk, dirs, env, zip.src, zip.dst)
                ELSE copyAndDelete(disk, dirs, env, zip.src, zip.dst)
     IN /\ disk' = r.disk
        /\ zst' = [at |-> "return", err |-> r.err]
  /\ UNCHANGED << pc, flags, env, dirs, scanVars, todo, stats, out, start, zip, stdin >>

\* The paths validatePath is asked about: the home folder, the temp
\* folders and folders in them; their siblings whose names begin alike;
\* folders elsewhere; relative paths, paths with "." and ".." elements and
\* with doubled and trailing slashes, a name with two dots in it, and the
\* empty path.  The program runs in the home folder or in /etc, and TMPDIR
\* is unset or names a folder.
ValidateInputs ==
  {[fn |-> "validatePath", path |-> p, wd |-> w, home |-> h, temp |-> t] :
      p \in { << >>, <<".">>, <<"d", "l">>, <<".", ".", "/", "u", "2">>, <<"/">>,
              <<"/", "e", "t", "c">>,
              <<"/", "h", "o", "m", "e", "/", "u">>,
              <<"/", "h", "o", "m", "e", "/", "u", "/", "d", "l">>,
              <<"/", "h", "o", "m", "e", "/", "u", "/", "/", "d", "l", "/">>,
              <<"/", "h", "o", "m", "e", "/", "u", "/", ".", "/", "d", "l">>,
              <<"/", "h", "o", "m", "e", "/", "u", "/", "a", ".", ".", "b">>,
              <<"/", "h", "o", "m", "e", "/", "u", "/", ".", ".", "/", ".", ".", "/", "e", "t", "c">>,
              <<"/", "h", "o", "m", "e", "/", "u", "2">>,
              <<"/", "h", "o", "m", "e", "/", "u", "2", "/", "d", "l">>,
              <<"/", "h", "o", "m", "e", "/", "v">>,
              <<"/", "t", "m", "p">>,
              <<"/", "t", "m", "p", "/", "x">>,
              <<"/", "t", "m", "p", "x">>,
              <<"/", "t", "m", "p", "/", ".", ".", "/", "e", "t", "c">>,
              <<"/", "v", "a", "r", "/", "f", "o", "l", "d", "e", "r", "s", "/", "x">>,
              <<"/", "v", "a", "r", "/", "f", "o", "l", "d", "e", "r", "s", "x">>,
              <<"/", "v", "a", "r", "/", "t">>,
              <<"/", "v", "a", "r", "/", "t", "/", "x">>,
              <<"/", "v", "a", "r", "/", "t", "x">> },
      w \in {HomeDir, <<"/", "e", "t", "c">>},
      h \in {HomeDir, << >>},
      t \in {TempDir, <<"/", "v", "a", "r", "/", "t">>}}

\* validatePath (main.go lines 16-48).
Validate ==
  /\ pc = "unit"
  /\ zip.fn = "validatePath"
  /\ zst.at = "call"
  /\ zst' = [at |-> "return", abs |-> Abs(zip.path, zip.wd),
             ret |-> validatePath(zip.path, zip.wd, zip.home, zip.temp)]
  /\ UNCHANGED << pc, flags, env, disk, dirs, scanVars, todo, stats, out, start, zip, stdin >>

InitUnit ==
  /\ \/ /\ zip \in TallyInputs \cup SizeInputs \cup ClassifyInputs \cup ValidateInputs
        /\ env \in Machines({{}}, {{}}, {"shared"})
        /\ disk = {}
        /\ dirs = {Base}
     \/ /\ zip \in MoveInputs
        /\ env \in Machines({{}, {Base}, {Sub}}, {{}, {Sub}}, {"shared"})
        /\ disk \in Picks(MovePool, MaxFiles)
        /\ dirs \in {{Base}, {Base, Sub}}
        /\ \A f \in disk : f.dir \in dirs
  /\ zst = [at |-> "call"]
  /\ pc = "unit"
  /\ flags = NoFlags
  /\ Files = << >>
  /\ Categories = EmptyMap
  /\ Duplicates = EmptyMap
  /\ todo = << >>
  /\ stats = NoStats
  /\ out = {}
  /\ start = [disk |-> disk, dirs |-> dirs]
  /\ stdin = NoInput

NextUnit == AnalyzeZip \/ BucketSize \/ Classify \/ Move \/ Validate

SpecUnit == InitUnit /\ [][NextUnit]_vars

\* ------------------------------------------------------------------------
\* Properties of duplicate resolution
\* ------------------------------------------------------------------------

\* A step that resolves one duplicate group for real, with no folder
\* read-only (so that no removal and no move fails).
ResolvesGroup(mode) ==
  /\ pc = mode
  /\ pc' = mode
  /\ todo' # todo
  /\ ~flags.dryRun
  /\ env.ro = {}

\* The group that step resolves.
ResolvedGroup == Duplicates[CHOOSE h \in todo : h \notin todo']

LatestTime(files) ==
  CHOOSE m \in {files[i].LastModified : i \in 1..Len(files)} :
    \A i \in 1..Len(files) : files[i].LastModified <= m

\* The first member, in scan order, of the latest modification time.
FirstNewest(files) ==
  files[CHOOSE i \in 1..Len(files) :
          /\ files[i].LastModified = LatestTime(files)
          /\ \A j \in 1..(i - 1) : files[j].LastModified < LatestTime(files)]

Originals(files) == {i \in 1..Len(files) : isOriginalFile(files[i].Name)}

\* After the step, one member of the latest modification time is on disk
\* and no other member is.
OnlyNewestLeft(files) ==
  \E k \in 1..Len(files) :
     /\ files[k].LastModified = LatestTime(files)
     /\ Exists(disk', files[k].Path)
     /\ \A i \in 1..Len(files) : i # k => ~Exists(disk', files[i].Path)

\* C1: when no member of a group looks original, RemoveDuplicatesByPattern
\* (not a dry run) keeps the member with the latest lastModified on disk
\* and removes every other member of the group.
C1_NoOriginalKeepsNewest ==
  [][ (ResolvesGroup("pattern") /\ Originals(ResolvedGroup) = {})
        => OnlyNewestLeft(ResolvedGroup) ]_vars

\* C2 as stated: when two or more members of a group look original,
\* RemoveDuplicatesByPattern keeps exactly one member, the one with the
\* latest lastModified, and removes every other member, the other
\* looks-original members included.
C2_ManyOriginalsNewestWins ==
  [][ (ResolvesGroup("pattern") /\ Cardinality(Originals(ResolvedGroup)) >= 2)
        => OnlyNewestLeft(ResolvedGroup) ]_vars

\* C2 amended: when two or more members of a group look original,
\* RemoveDuplicatesByPattern removes every member that looks like a copy,
\* leaves every looks-original member on disk as it was, and reports the
\* last looks-original member in scan order as the one kept.
C2_ManyOriginalsAllKept ==
  [][ (ResolvesGroup("pattern") /\ Cardinality(Originals(ResolvedGroup)) >= 2)
        => LET files == ResolvedGroup
               last == CHOOSE i \in Originals(files) : \A j \in Originals(files) : j <= i
           IN /\ \A i \in 1..Len(files) :
                   IF i \in Originals(files)
                     THEN /\ Exists(disk', files[i].Path)
                          /\ FileAt(disk', files[i].Path) = FileAt(disk, files[i].Path)
                     ELSE ~Exists(disk', files[i].Path)
              /\ out' \ out = {Report("keep", files[last].Path)}
                                \cup {Report("remove", files[i].Path) :
                                        i \in (1..Len(files)) \ Originals(files)} ]_vars

\* A group of two looks-original members and a copy has been resolved: the
\* copy is gone and both originals are on disk.
C2_Witness ==
  /\ pc = "pattern"
  /\ ~flags.dryRun
  /\ env.ro = {}
  /\ \E h \in (DOMAIN Duplicates) \ todo :
       LET files == Duplicates[h] IN
       /\ Cardinality(Originals(files)) >= 2
       /\ Cardinality(Originals(files)) < Len(files)
       /\ \A i \in 1..Len(files) : (i \in Originals(files)) = Exists(disk, files[i].Path)

\* C3: RemoveDuplicates and MoveDuplicatesToFolder keep, of every group, the
\* member with the latest lastModified, the first such member in scan order
\* on a tie; the keeper is left at its path as it was, and every other
\* member is deleted, or moved into the target folder.
C3_NewestWins ==
  [][ (ResolvesGroup("remove") \/ ResolvesGroup("move"))
        => LET files == ResolvedGroup
               keep == FirstNewest(files)
           IN /\ Report("keep", keep.Path) \in out'
              /\ Exists(disk', keep.Path)
              /\ FileAt(disk', keep.Path) = FileAt(disk, keep.Path)
              /\ \A i \in 1..Len(files) :
                   files[i].Path # keep.Path =>
                     IF pc = "remove"
                       THEN ~Exists(disk', files[i].Path)
                       ELSE LET dest == Join(flags.moveDuplicates, files[i].Name) IN
                            /\ Exists(disk', dest)
                            /\ FileAt(disk', dest).content = FileAt(disk, files[i].Path).content
                            /\ (files[i].Path = dest \/ ~Exists(disk', files[i].Path)) ]_vars

\* A group with a tie on the latest time was resolved by deletion: its
\* first member of that time is on disk and a later one of that time is not.
C3_Witness ==
  /\ pc = "remove"
  /\ ~flags.dryRun
  /\ env.ro = {}
  /\ \E h \in (DOMAIN Duplicates) \ todo :
       LET files == Duplicates[h] IN
       \E i, j \in 1..Len(files) :
          /\ i < j
          /\ files[i].LastModified = LatestTime(files)
          /\ files[j].LastModified = LatestTime(files)
          /\ files[i] = FirstNewest(files)
          /\ Exists(disk, files[i].Path)
          /\ ~Exists(disk, files[j].Path)

\* ------------------------------------------------------------------------
\* Properties of a run and of the organizer
\* ------------------------------------------------------------------------

\* C4: in a dry run, whatever duplicate strategy and organize strategy are
\* selected, every file and folder on disk when the run started is in
\* place with its content, and no folder has been added.
C4_DryRunChangesNothing ==
  flags.dryRun => (disk = start.disk /\ dirs = start.dirs)

\* C5: a record the scan flagged isDuplicate is never moved, and never
\* reported as moved, by any organizer operation.
C5_FlaggedNeverMoved ==
  (pc \in {"category", "date", "size", "zips", "done"}) =>
    \A i \in 1..Len(Files) :
       Files[i].IsDuplicate =>
         /\ Report("move", Files[i].Path) \notin out
         /\ (Exists(start.disk, Files[i].Path) /\ DuplicateMode(flags) = "none")
               => Exists(disk, Files[i].Path)

\* One pass, for real, of organize-by-category, by-date or by-size.
BucketPass ==
  /\ pc \in {"category", "date", "size"}
  /\ pc' = pc
  /\ todo' # todo
  /\ ~flags.dryRun

\* The folder that pass files under, and the records it handles.
PassTarget ==
  CASE pc = "category" -> << CategoryFolder(CHOOSE c \in todo : c \notin todo') >>
    [] pc = "date" -> << CHOOSE key \in todo : key \notin todo' >>
    [] pc = "size" -> << Head(todo).name >>

PassRecords ==
  CASE pc = "category" ->
         SelectSeq(Categories[CHOOSE c \in todo : c \notin todo'], LAMBDA r : ~r.IsDuplicate)
    [] pc = "date" -> DateGroup(Files, CHOOSE key \in todo : key \notin todo')
    [] pc = "size" -> InSizeCategory(Files, Head(todo))

\* The handled records whose name is taken in the target folder before the
\* pass.
Conflicting ==
  {i \in 1..Len(PassRecords) :
     /\ PassRecords[i].Path.dir # PassTarget
     /\ Exists(disk, Join(PassTarget, PassRecords[i].Name))}

\* C6: organize-by-category, by-date and by-size never overwrite.  In every
\* pass no path changes the file it holds and no file is lost; a record
\* whose name is taken in the target folder stays at its source path as it
\* was; and every handled record that did not leave its path is counted as
\* skipped.
C6_NeverOverwrites ==
  [][ BucketPass =>
        /\ \A f \in disk : Exists(disk', PathOf(f)) => FileAt(disk', PathOf(f)) = f
        /\ \A f \in disk :
              \/ f \in disk'
              \/ \E g \in disk' : /\ g.dir = PassTarget
                                  /\ g.name = f.name
                                  /\ g.content = f.content
        /\ \A i \in Conflicting :
              Exists(disk, PassRecords[i].Path) =>
                 FileAt(disk, PassRecords[i].Path) \in disk'
        /\ PassTarget \in dirs' =>
              /\ stats'.moved - stats.moved
                   = Cardinality({f \in disk : ~Exists(disk', PathOf(f))})
              /\ (stats'.moved - stats.moved) + (stats'.skipped - stats.skipped)
                   = Len(PassRecords) ]_vars

\* A pass met a name that was taken in its target folder: the record is
\* still at its source path, the file in the target folder is another one,
\* and a skip was counted.
C6_Witness ==
  /\ pc \in {"category", "date", "size"}
  /\ ~flags.dryRun
  /\ stats.skipped > 0
  /\ stats.moved > 0
  /\ \E i \in 1..Len(Files) :
       LET r == Files[i]
           target == CASE pc = "category" -> << CategoryFolder(r.Category) >>
                       [] pc = "date" -> << FormatYearMonth(r.LastModified) >>
                       [] pc = "size" -> << sizeCategories[IF r.Size < MiB THEN 1 ELSE 2].name >>
       IN /\ ~r.IsDuplicate
          /\ r.Path.dir # target
          /\ target \in dirs
          /\ (pc = "category" => r.Category \notin todo)
          /\ (pc = "date" => FormatYearMonth(r.LastModified) \notin todo)
          /\ (pc = "size" => Len(todo) <= 3)
          /\ Exists(disk, r.Path)
          /\ FileAt(disk, r.Path) = FileAt(start.disk, r.Path)
          /\ Exists(disk, Join(target, r.Name))
          /\ FileAt(disk, Join(target, r.Name)).content # FileAt(disk, r.Path).content

\* A file at a scanned path left that path in this step.
Relocated(r) == Exists(disk, r.Path) /\ ~Exists(disk', r.Path)

ArchiveRecords == {i \in 1..Len(Files) : Files[i].Category = "Archives"}

\* checkZipBomb returns nil for the file now at a path.
PassesScreening(p) == checkZipBomb(Exists(disk, p), SizeAt(disk, p), ZipAt(disk, p)) = ""

\* C7 as stated: no organizer operation (by category, by date, by size,
\* process-zips) relocates a file of category Archives unless checkZipBomb
\* ran on it earlier in the run and succeeded.
C7_ScreenedBeforeAnyMove ==
  [][ (pc \in {"category", "date", "size", "zips"})
        => \A i \in ArchiveRecords :
              Relocated(Files[i]) =>
                 /\ Report("screened", Files[i].Path) \in out'
                 /\ PassesScreening(Files[i].Path) ]_vars

\* C7 amended: ProcessZipFiles relocates an archive only after checkZipBomb
\* ran on it in the same run and succeeded.  (Organize-by-category, by-date
\* and by-size relocate archives without running checkZipBomb.)
C7_ScreenedBeforeZipMove ==
  [][ (pc = "zips")
        => \A i \in ArchiveRecords :
              (Relocated(Files[i]) \/ Report("move", Files[i].Path) \in out' \ out) =>
                 /\ Report("screened", Files[i].Path) \in out'
                 /\ PassesScreening(Files[i].Path) ]_vars

\* ProcessZipFiles has moved an archive that passed the screening.
C7_Witness ==
  /\ pc = "zips"
  /\ ~flags.dryRun
  /\ \E i \in ArchiveRecords :
       /\ Report("move", Files[i].Path) \in out
       /\ Report("screened", Files[i].Path) \in out
       /\ ~Exists(disk, Files[i].Path)
       /\ \E g \in disk : g.name = Files[i].Name /\ g.content = 3

\* C8: in ProcessZipFiles an archive for which checkZipBomb fails is
\* counted as skipped without being moved, the operation goes on to the
\* next archive and returns no error, and the archive is at its original
\* path, as it was, for the rest of the operation.
C8_SuspiciousLeftInPlace ==
  [][ (pc = "zips" /\ todo # << >>)
        => /\ ( ~Head(todo).IsDuplicate /\ ~PassesScreening(Head(todo).Path) )
                => /\ disk' = disk
                   /\ dirs' = dirs
                   /\ stats' = [stats EXCEPT !.skipped = @ + 1]
                   /\ pc' = "zips"
                   /\ todo' = Tail(todo)
           /\ \A r \in out' :
                 r.op = "suspicious" =>
                    /\ Exists(disk', r.path)
                    /\ FileAt(disk', r.path) = FileAt(start.disk, r.path) ]_vars

\* A suspicious archive was skipped and a later archive was moved.
C8_Witness ==
  /\ pc = "zips"
  /\ ~flags.dryRun
  /\ stats.skipped > 0
  /\ stats.moved > 0
  /\ \E r, m \in out : r.op = "suspicious" /\ m.op = "move" /\ Exists(disk, r.path)

\* ------------------------------------------------------------------------
\* Properties of checkZipBomb
\* ------------------------------------------------------------------------

\* Sums of declared sizes as natural numbers: six limbs, no wrap-around.
Wide(a) == Pad(a, 6)

RECURSIVE SumWide(_, _)
SumWide(entries, i) ==
  IF i > Len(entries) THEN Wide(Zero64)
  ELSE PlusN(Wide(entries[i].usize), SumWide(entries, i + 1))

\* The sum of the declared uncompressed sizes of all entries of an archive.
DeclaredTotal(z) ==
  PlusN(SumWide(z.head, 1), TimesN(Wide(z.fill.usize), z.n - Len(z.head)))

ExpandsTooMuch(z) == ULess(Wide(U64(10 * maxZipSize)), DeclaredTotal(z))

\* An entry compressed to under 1% of an uncompressed size above 1 MiB.
BombEntry(e) == ULess(MulSmall(e.csize, 100), e.usize \o <<0>>) /\ ULess(U64(MiB), e.usize)

HasBombEntry(z) == \E i \in 1..Len(z.head) : BombEntry(z.head[i])

ZipFinished == pc = "zip" /\ zst.at \in {"nil", "err"}

\* C9: checkZipBomb fails for every archive whose file size exceeds 100 MiB,
\* or that lists more than 10,000 entries, or that has an entry compressed
\* to under 1% of an uncompressed size above 1 MiB; and it returns nil for
\* every archive that exists, can be opened and triggers none of the four
\* screening conditions, among them archives of exactly 10,000 entries and
\* of a file size of exactly 100 MiB.
C9_ScreeningThresholds ==
  ZipFinished =>
    /\ (zip.fileSize > maxZipSize \/ zip.arc.n > maxZipEntries \/ HasBombEntry(zip.arc))
         => zst.at = "err"
    /\ ( /\ zip.exists /\ zip.arc.openable
         /\ zip.fileSize <= maxZipSize
         /\ zip.arc.n <= maxZipEntries
         /\ ~HasBombEntry(zip.arc)
         /\ ~ExpandsTooMuch(zip.arc) )
         => zst.at = "nil"

\* C10: checkZipBomb fails for every archive whose entries' declared
\* uncompressed sizes add up to more than ten times the 100 MiB ceiling.
C10_AggregateExpansionRejected ==
  (ZipFinished /\ ExpandsTooMuch(zip.arc)) => zst.at = "err"

\* ------------------------------------------------------------------------
\* Properties of the archive analysis
\* ------------------------------------------------------------------------

Analyzed == pc = "unit" /\ zip.fn = "analyzeZipContents" /\ zst.at = "return"

BucketCounts ==
  << zst.tally.imageCount, zst.tally.documentCount, zst.tally.videoCount,
     zst.tally.audioCount, zst.tally.applicationCount, zst.tally.fontCount,
     zst.tally.codeCount >>

BucketFolders ==
  << "Images", "Documents", "Videos", "Music", "Applications", "Other", "Other" >>

\* The buckets whose count no other bucket exceeds.
TopBuckets == {i \in 1..7 : \A j \in 1..7 : BucketCounts[i] >= BucketCounts[j]}

\* C11 (as stated): analyzeZipContents returns the folder of the bucket whose
\* count is strictly higher than every other bucket's, and "Other" when two
\* or more buckets tie for the highest count or all counts are zero.
C11_TiesGoToOther ==
  Analyzed =>
    zst.ret = IF Cardinality(TopBuckets) = 1
                THEN BucketFolders[CHOOSE i \in TopBuckets : TRUE]
                ELSE "Other"

\* C11 (amended): analyzeZipContents returns "Other" when all counts are
\* zero, and otherwise the folder of the first bucket, in the order images,
\* documents, videos, audio, applications, fonts, code, that holds the
\* highest count: a strictly highest bucket wins, and a tie goes to the
\* earliest of the tied buckets.
C11_EarliestHighestWins ==
  Analyzed =>
    LET first == CHOOSE i \in TopBuckets : \A j \in TopBuckets : i <= j IN
    zst.ret = IF BucketCounts[first] = 0 THEN "Other" ELSE BucketFolders[first]

\* A tie for the highest count between documents and videos, with fewer
\* images, has been analysed.
C11_Witness ==
  /\ Analyzed
  /\ zst.tally.documentCount = 2
  /\ zst.tally.videoCount = 2
  /\ zst.tally.imageCount = 0
  /\ zst.ret = "Documents"

\* C12: analyzeZipContents returns "Images" for every archive whose image
\* count is positive and at least as large as every other bucket's count.
C12_ImagesWinTies ==
  (Analyzed /\ zst.tally.imageCount > 0 /\ 1 \in TopBuckets) => zst.ret = "Images"

\* The tested archive: two images and two documents.
C12_Witness ==
  /\ Analyzed
  /\ zst.tally.imageCount = 2
  /\ zst.tally.documentCount = 2
  /\ zip.arc.n = 4
  /\ zst.ret = "Images"

\* What Scanner.ScanDirectory makes of a name before it asks determineCategory.
ScannedCategory(name) ==
  LET e == ToLower(Ext(name)) IN
  determineCategory(IF e = << >> THEN NoExtension ELSE e, name)

\* C13: an archive entry is tallied in the images, documents, videos, audio
\* or applications bucket exactly when determineCategory maps its extension
\* to Images, Documents, Videos, Music or Applications; other entries are
\* tallied in the fonts or code bucket or not at all, and directory entries
\* are never tallied.
C13_SameExtensionSets ==
  (Analyzed /\ zip.arc.n = 1) =>
    LET e == EntryAt(zip.arc, 1)
        cat == ScannedCategory(e.name)
        t == zst.tally
    IN IF IsDir(e)
         THEN \A i \in 1..7 : BucketCounts[i] = 0
         ELSE /\ (t.imageCount = 1) = (cat = "Images")
              /\ (t.documentCount = 1) = (cat = "Documents")
              /\ (t.videoCount = 1) = (cat = "Videos")
              /\ (t.audioCount = 1) = (cat = "Music")
              /\ (t.applicationCount = 1) = (cat = "Applications")
              /\ (t.fontCount + t.codeCount = 1) =>
                    ToLower(Ext(e.name)) \in ZipFontExts \cup ZipCodeExts

\* ------------------------------------------------------------------------
\* Properties of size bucketing
\* ------------------------------------------------------------------------

Sized == pc = "unit" /\ zip.fn = "sizeCategory" /\ zst.at = "return"

Classified == pc = "unit" /\ zip.fn = "determineCategory" /\ zst.at = "return"

\* The category table, for the extensions asked about.
TableCategory ==
  [e \in {<<".", "j", "p", "g">>, <<".", "p", "d", "f">>, <<".", "t", "x", "t">>,
          <<".", "m", "p", "4">>, <<".", "m", "p", "3">>, <<".", "e", "x", "e">>,
          <<".", "z", "i", "p">>, <<".", "i", "s", "o">>, <<".", "d", "m", "g">>} |->
     CASE e = <<".", "j", "p", "g">> -> "Images"
       [] e \in {<<".", "p", "d", "f">>, <<".", "t", "x", "t">>} -> "Documents"
       [] e = <<".", "m", "p", "4">> -> "Videos"
       [] e = <<".", "m", "p", "3">> -> "Music"
       [] e = <<".", "e", "x", "e">> -> "Applications"
       [] e = <<".", "z", "i", "p">> -> "Archives"
       [] OTHER -> "Disk Images"]

\* Whether the lower-cased name holds one of the two words.
Mentions(name, w1, w2) == Contains(ToLower(name), w1) \/ Contains(ToLower(name), w2)

\* C15: determineCategory answers by the extension when the table maps it,
\* whatever the name holds; for an unmapped extension it looks at the
\* lower-cased name, "install"/"setup" before "manual"/"guide", and answers
\* Other when neither is found.
C15_ExtensionFirst ==
  Classified =>
    zst.ret =
      IF zip.ext \in DOMAIN TableCategory THEN TableCategory[zip.ext]
      ELSE IF Mentions(zip.name, <<"i", "n", "s", "t", "a", "l", "l">>, <<"s", "e", "t", "u", "p">>)
        THEN "Applications"
      ELSE IF Mentions(zip.name, <<"m", "a", "n", "u", "a", "l">>, <<"g", "u", "i", "d", "e">>)
        THEN "Documents"
      ELSE "Other"

\* guide.txt or setup.exe, names that hold one of the words, was classified
\* by its extension.
C15_Witness ==
  /\ Classified
  /\ \/ zip.name = <<"g", "u", "i", "d", "e", ".", "t", "x", "t">> /\ zst.ret = "Documents"
     \/ zip.name = <<"s", "e", "t", "u", "p", ".", "e", "x", "e">> /\ zst.ret = "Applications"
  /\ zip.ext \in DOMAIN TableCategory

\* ------------------------------------------------------------------------
\* Properties of the scan
\* ------------------------------------------------------------------------

\* ScanDirectory has just returned without an error.
Scanned == pc = "duplicates"

\* The file on disk a record was made from.
Scannee(i) == FileAt(start.disk, Files[i].Path)

\* The records whose file has the bytes c and could be read to the end.
ReadWith(c) == {i \in 1..Len(Files) : Scannee(i).content = c /\ Scannee(i).io = "ok"}

Flagged == {i \in 1..Len(Files) : Files[i].IsDuplicate}

Grouped ==
  {i \in 1..Len(Files) :
     \E h \in DOMAIN Duplicates : \E k \in 1..Len(Duplicates[h]) :
        Duplicates[h][k].Path = Files[i].Path}

\* C16: after ScanDirectory, when N >= 2 of the scanned files hold the same
\* bytes and the other files hold bytes of their own, the duplicate table
\* holds exactly one group, keyed by the hash of the N and made of them;
\* exactly those N records are flagged; and a record with an empty hash is
\* in no group and is not flagged.
C16_OneGroupOfN ==
  Scanned =>
    /\ \A i \in 1..Len(Files) :
          Files[i].Hash = EmptyHash => i \notin Flagged /\ i \notin Grouped
    /\ \A c \in {Scannee(i).content : i \in 1..Len(Files)} :
          ( /\ Cardinality(ReadWith(c)) >= 2
            /\ \A b \in {Scannee(i).content : i \in 1..Len(Files)} \ {c} :
                  Cardinality(ReadWith(b)) <= 1 )
          => /\ Cardinality(DOMAIN Duplicates) = 1
             /\ \A h \in DOMAIN Duplicates :
                   /\ \A i \in ReadWith(c) : Files[i].Hash = h
                   /\ Len(Duplicates[h]) = Cardinality(ReadWith(c))
                   /\ {Duplicates[h][k].Path : k \in 1..Len(Duplicates[h])}
                        = {Files[i].Path : i \in ReadWith(c)}
             /\ Flagged = ReadWith(c)

\* Two files with the same bytes and a third file that is not their
\* duplicate have been scanned.
C16_Witness ==
  /\ Scanned
  /\ Len(Files) = 3
  /\ \E c \in {1, 2} : Cardinality(ReadWith(c)) = 2
  /\ \E i \in 1..Len(Files) : i \notin Flagged
  /\ Cardinality(Flagged) = 2

\* The files the scan is to record: readable regular files below the root
\* whose name does not start with "." and whose folder, when it is not the
\* root itself, neither starts with "." nor ends in ".app".
Eligible ==
  {f \in start.disk :
     /\ f.io # "noopen"
     /\ f.dir = Base \/ (Len(f.dir) = 1 /\ f.dir[1] # Outside)
     /\ ~HasPrefix(f.name, <<".">>)
     /\ f.dir # Base =>
           /\ ~HasPrefix(f.dir[1], <<".">>)
           /\ ~HasSuffix(f.dir[1], <<".", "a", "p", "p">>)}

\* C17: after a successful ScanDirectory of a root folder, Files holds one
\* record for every eligible file and none for any other file, and no two
\* records have the same path.
C17_ExactlyTheEligible ==
  (Scanned /\ env.root.kind = "dir") =>
    /\ {Files[i].Path : i \in 1..Len(Files)} = {PathOf(f) : f \in Eligible}
    /\ \A i, j \in 1..Len(Files) : Files[i].Path = Files[j].Path => i = j

\* C18: when the root exists, ScanDirectory returns success and records
\* every other eligible file whatever entries below the root cannot be
\* opened for reading; a file that cannot be opened gets no record, and a
\* file whose hashing fails is recorded with an empty hash.  (Stated for the
\* root at RootPath, itself readable.)
C18_EntryErrorsNeverAbort ==
  (env.root = HomeRoot /\ Base \notin env.closed) =>
    /\ pc # "failed"
    /\ Scanned =>
         /\ \A f \in Eligible : \E i \in 1..Len(Files) : Files[i].Path = PathOf(f)
         /\ \A i \in 1..Len(Files) :
               /\ Scannee(i).io # "noopen"
               /\ Scannee(i).io = "noread" => Files[i].Hash = EmptyHash

\* C19: a scan root that does not exist, or that is not a folder, makes the
\* run fail before anything is inventoried: no record is made and neither
\* duplicate resolution nor organization is reached.
C19_BadRootFailsTheRun ==
  env.root.kind # "dir" => (pc \in {"main", "failed"} /\ Files = << >>)

\* The run went past the scan of a root that is a regular file.
C19_Witness == env.root.kind = "file" /\ pc = "organize" /\ Len(Files) = 1

\* ------------------------------------------------------------------------
\* Properties of the move primitive
\* ------------------------------------------------------------------------

Moved == pc = "unit" /\ zip.fn \in {"atomicMove", "copyAndDelete"} /\ zst.at = "return"

\* The source is as it was before the call.
SourceIntact ==
  Exists(disk, zip.src) /\ FileAt(disk, zip.src) = FileAt(start.disk, zip.src)

\* The source is gone and the destination holds its bytes.
Arrived ==
  /\ ~Exists(disk, zip.src)
  /\ Exists(disk, zip.dst)
  /\ FileAt(disk, zip.dst).content = FileAt(start.disk, zip.src).content

OrganizeAndZips ==
  /\ flags.organize
  /\ flags.processZips
  /\ ~flags.byDate
  /\ ~flags.bySize
  /\ ~flags.dryRun

\* C21: a run with both --organize and --process-zips organizes the scanned
\* files by category as well as processing the archives: when it ends,
\* every record that is not flagged a duplicate and is no archive has been
\* reported as moved and lies in the folder of its category.
C21_OptionsCombine ==
  (pc = "done" /\ OrganizeAndZips) =>
    \A i \in 1..Len(Files) :
       (~Files[i].IsDuplicate /\ Files[i].Category # "Archives") =>
          /\ Report("move", Files[i].Path) \in out
          /\ Exists(disk, Join(<< CategoryFolder(Files[i].Category) >>, Files[i].Name))

\* Such a run ended: its archive was processed, and the text file it
\* scanned is still in the root.
C21_Witness ==
  /\ pc = "done"
  /\ OrganizeAndZips
  /\ \E r \in out : r.op = "screened"
  /\ \E i \in 1..Len(Files) :
       /\ ~Files[i].IsDuplicate
       /\ Files[i].Category = "Documents"
       /\ Exists(disk, Files[i].Path)

\* The operator's answer, read as leniently as can be: case and blanks
\* around it set aside, it is "y" or "yes".
AnsweredYes(line) ==
  ToLower(TrimSpace(line)) \in {<<"y">>, <<"y", "e", "s">>}

\* C22: in a run that is neither a dry run nor forced, nothing is scanned
\* and the file system is untouched until the prompt is answered; the run
\* goes on to the scan only when the operator answered y or yes, and any
\* other answer, the empty one and the end of the input included, ends the
\* run with the file system unchanged.
C22_ConfirmationGates ==
  [][ /\ (pc' \in {"main", "confirm", "cancelled"})
           => (disk' = start'.disk /\ dirs' = start'.dirs /\ Files' = << >>)
      /\ (pc = "confirm" /\ ~flags.dryRun /\ ~flags.force /\ pc' # "confirm")
           => pc' = IF AnsweredYes(stdin.buf) THEN "walk" ELSE "cancelled" ]_vars

\* ------------------------------------------------------------------------
\* Properties of validatePath
\* ------------------------------------------------------------------------

Validated == pc = "unit" /\ zip.fn = "validatePath" /\ zst.at = "return"

\* The folder p is the folder d or lies below it.
Within(p, d) == p = d \/ HasPrefix(p, d \o <<"/">>)

\* The home folder, the temp folder of the system, and the two temp roots
\* the program names.
AllowedRoots ==
  (IF zip.home = << >> THEN {} ELSE {zip.home})
    \cup {zip.temp, <<"/", "t", "m", "p">>,
          <<"/", "v", "a", "r", "/", "f", "o", "l", "d", "e", "r", "s">>}

\* C23: validatePath accepts a path only if its absolute form is the home
\* folder or a temp folder or lies below one of them, as folders and not as
\* strings that begin alike; the empty path is rejected.
C23_OnlyInsideAllowedFolders ==
  (Validated /\ zst.ret = "") =>
     /\ zip.path # << >>
     /\ \E d \in AllowedRoots : Within(zst.abs, d)

\* A path that lies in the home folder, given in another form than its
\* absolute one, was accepted.
C23_Witness ==
  /\ Validated
  /\ zst.ret = ""
  /\ zst.abs = <<"/", "h", "o", "m", "e", "/", "u", "/", "d", "l">>
  /\ zip.path # zst.abs

\* ------------------------------------------------------------------------
\* Properties of the totals of duplicate resolution
\* ------------------------------------------------------------------------

\* The scanned files that are no longer at the path they were scanned at.
Gone == {i \in 1..Len(Files) : ~Exists(disk, Files[i].Path)}

RECURSIVE SizeOf(_)
SizeOf(S) ==
  IF S = {} THEN 0
  ELSE LET i == CHOOSE j \in S : TRUE IN Files[i].Size + SizeOf(S \ {i})

\* The loop over Scanner.Duplicates has no group left to visit.
NothingLeft ==
  IF DuplicateMode(flags) = "interactive" THEN todo = << >> ELSE todo = {}

\* Duplicate resolution ran for real and has returned.
Resolved ==
  /\ pc = "organize"
  /\ ~flags.dryRun
  /\ DuplicateMode(flags) # "none"

\* C24: when duplicate resolution has run for real, whatever the strategy,
\* every group was visited, the count it ends with is the number of scanned
\* files that are gone from their path, and the bytes it ends with are the
\* sizes of exactly those files; a member whose removal or move failed is
\* still in place and is in neither total.
C24_TotalsAreWhatWentAway ==
  Resolved =>
    /\ NothingLeft
    /\ stats.count = Cardinality(Gone)
    /\ stats.bytes = SizeOf(Gone)

\* Resolution has returned after a removal or a move failed on one member
\* and went through on another.
C24_Witness ==
  /\ Resolved
  /\ stats.count > 0
  /\ \E h \in DOMAIN Duplicates : \E i \in 1..Len(Duplicates[h]) :
       LET p == Duplicates[h][i].Path IN
         /\ Exists(disk, p)
         /\ p.dir \in env.ro
         /\ Report("keep", p) \notin out

\* ------------------------------------------------------------------------
\* Properties of the order of the phases of a run
\* ------------------------------------------------------------------------

ResolverPhases == {"remove", "interactive", "discard", "pattern", "move"}

OrganizerPhases == {"category", "date", "size", "zips"}

\* The place of a phase in the clean action of main.
Rank(p) ==
  CASE p \in {"main", "confirm"} -> 0
    [] p = "walk" -> 1
    [] p = "duplicates" -> 2
    [] p \in ResolverPhases -> 3
    [] p = "organize" -> 4
    [] p \in OrganizerPhases -> 5
    [] OTHER -> 6

Unflagged(files) ==
  [j \in 1..Len(files) |-> [files[j] EXCEPT !.IsDuplicate = FALSE]]

\* Duplicate detection has finished: the groups and the flags are what
\* findDuplicates makes of the records of the walk.
DetectionDone ==
  /\ Duplicates = DuplicateGroups(Unflagged(Files))
  /\ Files = MarkDuplicates(Unflagged(Files), Duplicates)

FlagsOf(files) == [j \in 1..Len(files) |-> files[j].IsDuplicate]

\* C25: the tree walk has returned when duplicate detection starts; a flag
\* changes only in the step of the scanner that follows the walk, and that
\* step writes each record's flag at most once; while the duplicate handler
\* or the organizer is at work, detection has finished; and the organizer
\* starts only when the duplicate handler, if it was selected, has been
\* through all its groups.
C25_BarrierOrdering ==
  /\ [](pc \in ResolverPhases \cup {"organize"} \cup OrganizerPhases => DetectionDone)
  /\ [][ /\ Rank(pc') >= Rank(pc)
         /\ (Duplicates' # Duplicates \/ pc' = "duplicates")
              => pc = "walk" /\ todo = << >>
         /\ (Len(Files') = Len(Files) /\ FlagsOf(Files') # FlagsOf(Files))
              => /\ pc = "walk" /\ pc' = "duplicates"
                 /\ \A j \in 1..Len(Files) : flagWrites(Files, Duplicates', j) <= 1
         /\ (pc' \in ResolverPhases \cup {"organize"} \cup OrganizerPhases)
              => FlagsOf(Files') = FlagsOf(Files) \/ pc = "walk"
         /\ (pc # "organize" /\ pc' = "organize")
              => \/ pc = "duplicates" /\ DuplicateMode(flags) = "none"
                 \/ pc \in ResolverPhases /\ NothingLeft ]_vars

\* The organizer is at work on flagged records after the duplicate handler
\* removed a file.
C25_Witness ==
  /\ pc \in OrganizerPhases
  /\ \E j \in 1..Len(Files) : Files[j].IsDuplicate
  /\ \E r \in out : r.op = "remove"

\* ------------------------------------------------------------------------
\* Properties of running the program again
\* ------------------------------------------------------------------------

\* This is the second run of the same organize operation for real.
SecondRun ==
  /\ "before" \in DOMAIN start
  /\ ~flags.dryRun
  /\ OrganizeMode(flags) \in {"category", "date", "size"}

\* C26: a second run of the same organize operation (by category, by date
\* or by size) over the folder a first run for real has organized moves no
\* file, whether the first run moved by rename or by copy and delete.
C26_SecondRunMovesNothing ==
  SecondRun => (stats.moved = 0 /\ disk = start.disk)

\* The second run is over, and it looked at a file the first run had moved
\* by copy and delete.
C26_Witness ==
  /\ SecondRun
  /\ pc = "done"
  /\ \E f \in start.disk : f.mtime = Now /\ f.content # Partial

\* ------------------------------------------------------------------------
\* Properties of what a run leaves of the scanned contents
\* ------------------------------------------------------------------------

\* The contents the scan took a hash of.
ScannedHashes == {Files[i].Hash : i \in 1..Len(Files)} \ {EmptyHash}

\* The strategies selected have all returned.
RunOver ==
  \/ pc = "done"
  \/ pc = "organize" /\ OrganizeMode(flags) = "done"

\* C27: in a run for real, whatever the duplicate strategy and the organize
\* strategy, every content the scan took a hash of is still the content of
\* a file on disk when the strategies selected have returned.
C27_ContentSurvives ==
  (~flags.dryRun /\ RunOver) =>
     \A h \in ScannedHashes : \E f \in disk : Digest(f.content) = h

\* A run for real is over after it disposed of a duplicate.
C27_Witness ==
  /\ ~flags.dryRun
  /\ RunOver
  /\ \E r \in out : r.op \in {"remove", "move"}

\* ------------------------------------------------------------------------
\* Properties of the relocations of MoveDuplicatesToFolder and
\* ProcessZipFiles
\* ------------------------------------------------------------------------

\* A step of one of the two operations, for real.
Relocates ==
  /\ pc \in {"move", "zips"}
  /\ pc' = pc
  /\ todo' # todo
  /\ ~flags.dryRun

\* C28: a step of MoveDuplicatesToFolder or of ProcessZipFiles leaves every
\* file that stays at its path as it was (none is replaced or truncated by
\* a file moved onto it), and loses no file: each file it moved lies at a
\* destination of its own, so that there are as many files after the step
\* as before.
C28_RelocationNeverOverwrites ==
  [][ Relocates =>
        /\ \A f \in disk : Exists(disk', PathOf(f)) => FileAt(disk', PathOf(f)) = f
        /\ Cardinality(disk') >= Cardinality(disk) ]_vars

\* A duplicate has been moved into a folder that held no file of its name.
C28_Witness ==
  /\ pc = "move"
  /\ ~flags.dryRun
  /\ \E r \in out :
       /\ r.op = "move"
       /\ ~Exists(start.disk, Join(flags.moveDuplicates, r.path.name))
       /\ Exists(disk, Join(flags.moveDuplicates, r.path.name))

\* ------------------------------------------------------------------------
\* Properties of the three views of the inventory
\* ------------------------------------------------------------------------

\* The records the category mapping and the duplicate table hold.
Listed(map) == UNION {{map[k][i] : i \in 1..Len(map[k])} : k \in DOMAIN map}

\* How many times the category lists hold a record of the path p.
TimesListed(p) ==
  Cardinality({ki \in UNION {{<< k, i >> : i \in 1..Len(Categories[k])} : k \in DOMAIN Categories} :
                 Categories[ki[1]][ki[2]].Path = p})

\* C29: after ScanDirectory, every record of the category mapping and of
\* the duplicate table carries the flag of the record of its path in
\* s.Files; every record of s.Files is in exactly one category list; and
\* the duplicate table has only non-empty hashes, each with two members or
\* more, all of them at paths of s.Files.
C29_ViewsAgree ==
  Scanned =>
    /\ \A r \in Listed(Categories) \cup Listed(Duplicates) :
         \A i \in 1..Len(Files) :
           Files[i].Path = r.Path => Files[i].IsDuplicate = r.IsDuplicate
    /\ \A i \in 1..Len(Files) : TimesListed(Files[i].Path) = 1
    /\ \A h \in DOMAIN Duplicates :
         /\ h # EmptyHash
         /\ Len(Duplicates[h]) >= 2
         /\ \A k \in 1..Len(Duplicates[h]) :
              \E i \in 1..Len(Files) : Files[i].Path = Duplicates[h][k].Path

\* ScanDirectory has returned with a group of duplicates and with a file
\* that has no duplicate.
C29_Witness ==
  /\ Scanned
  /\ DOMAIN Duplicates # {}
  /\ \E i \in 1..Len(Files) : ~Files[i].IsDuplicate

\* ------------------------------------------------------------------------
\* Properties of the prompt loop of RemoveDuplicatesInteractive
\* ------------------------------------------------------------------------

\* RemoveDuplicatesInteractive is in its prompt loop.
Prompting == pc \in {"interactive", "discard"}

\* C30: RemoveDuplicatesInteractive terminates whatever standard input
\* holds: once the input has ended, the prompt loop ends too, and the
\* operation returns.
C30_PromptLoopEnds ==
  (Prompting /\ stdin.eof) ~> ~Prompting

\* The question about a group was read at the end of the input, and the
\* read that clears the line is next.
C30_Witness ==
  /\ pc = "discard"
  /\ stdin.eof
  /\ stdin.buf = << >>
  /\ todo # << >>

====
